---- MODULE Spec2Model ----
(***************************************************************************)
(* A model of lxc-dev-manager's project state store (containers.yaml, its  *)
(* advisory lock and its atomic save), of the validation layer and of the  *)
(* mount operations built on them.                                         *)
(*                                                                         *)
(* Strings of the program are sequences of one-character strings, so that  *)
(* prefix, suffix, cleaning and the naming grammar are computed as the     *)
(* code computes them.                                                     *)
(***************************************************************************)
EXTENDS Integers, Sequences, FiniteSets, TLC

(***************************************************************************)
(* Characters and string helpers (Go's strings / path/filepath packages).  *)
(***************************************************************************)
Lower == {"a","b","c","d","e","f","g","h","i","j","k","l","m",
          "n","o","p","q","r","s","t","u","v","w","x","y","z"}
Upper == {"A","B","C","D","E","F","G","H","I","J","K","L","M",
          "N","O","P","Q","R","S","T","U","V","W","X","Y","Z"}
Digit == {"0","1","2","3","4","5","6","7","8","9"}
Letter == Lower \cup Upper
\* unicode.IsSpace for the characters the model uses
Space == {" ", "\t", "\n", "\r"}
\* runes below 32 and rune 127; NUL and DEL are single characters here
ControlChars == {"NUL", "\t", "\n", "\r", "DEL"}

HasPrefix(s, pre) ==
    /\ Len(s) >= Len(pre)
    /\ SubSeq(s, 1, Len(pre)) = pre

HasSuffix(s, suf) ==
    /\ Len(s) >= Len(suf)
    /\ SubSeq(s, Len(s) - Len(suf) + 1, Len(s)) = suf

Contains(s, sub) ==
    \E i \in 1..(Len(s) - Len(sub) + 1) : SubSeq(s, i, i + Len(sub) - 1) = sub

TrimSuffix(s, suf) ==
    IF HasSuffix(s, suf) THEN SubSeq(s, 1, Len(s) - Len(suf)) ELSE s

RECURSIVE TrimLeft(_)
TrimLeft(s) ==
    IF s # <<>> /\ Head(s) \in Space THEN TrimLeft(Tail(s)) ELSE s

RECURSIVE TrimRight(_)
TrimRight(s) ==
    IF s # <<>> /\ s[Len(s)] \in Space
    THEN TrimRight(SubSeq(s, 1, Len(s) - 1))
    ELSE s

TrimSpace(s) == TrimRight(TrimLeft(s))

\* the segments of a path between its slashes (empty segments included)
SplitPath(s) ==
    LET cuts == {0} \cup {i \in 1..Len(s) : s[i] = "/"} \cup {Len(s) + 1}
        starts == cuts \ {Len(s) + 1}
        NextCut(i) == CHOOSE j \in cuts : j > i /\ \A k \in cuts : k > i => j <= k
        Rank(i) == Cardinality({j \in starts : j <= i})
    IN  [n \in 1..Cardinality(starts) |->
            LET i == CHOOSE c \in starts : Rank(c) = n
            IN  SubSeq(s, i + 1, NextCut(i) - 1)]

RECURSIVE JoinPath(_)
JoinPath(segs) ==
    IF segs = <<>> THEN <<>>
    ELSE IF Len(segs) = 1 THEN Head(segs)
    ELSE Head(segs) \o <<"/">> \o JoinPath(Tail(segs))

RECURSIVE CleanFold(_, _, _)
CleanFold(segs, stack, rooted) ==
    IF segs = <<>> THEN stack
    ELSE LET s == Head(segs)
             next ==
                 IF s = <<>> \/ s = <<".">> THEN stack
                 ELSE IF s = <<".", ".">>
                      THEN IF Len(stack) > 0 /\ stack[Len(stack)] # <<".", ".">>
                           THEN SubSeq(stack, 1, Len(stack) - 1)
                           ELSE IF rooted THEN stack ELSE Append(stack, s)
                      ELSE Append(stack, s)
         IN  CleanFold(Tail(segs), next, rooted)

\* filepath.Clean on a Unix path
Clean(p) ==
    IF p = <<>> THEN <<".">>
    ELSE LET rooted == (p[1] = "/")
             body == JoinPath(CleanFold(SplitPath(p), <<>>, rooted))
         IN  IF rooted THEN <<"/">> \o body
             ELSE IF body = <<>> THEN <<".">> ELSE body

RECURSIVE StripSlashes(_)
StripSlashes(p) ==
    IF p # <<>> /\ p[Len(p)] = "/"
    THEN StripSlashes(SubSeq(p, 1, Len(p) - 1))
    ELSE p

\* filepath.Base on a Unix path
Base(p) ==
    IF p = <<>> THEN <<".">>
    ELSE LET q == StripSlashes(p)
         IN  IF q = <<>> THEN <<"/">>
             ELSE LET segs == SplitPath(q) IN segs[Len(segs)]

LowerSeq == <<"a","b","c","d","e","f","g","h","i","j","k","l","m",
              "n","o","p","q","r","s","t","u","v","w","x","y","z">>
UpperSeq == <<"A","B","C","D","E","F","G","H","I","J","K","L","M",
              "N","O","P","Q","R","S","T","U","V","W","X","Y","Z">>

ToLowerChar(c) ==
    IF c \in Upper
    THEN LowerSeq[CHOOSE i \in 1..Len(UpperSeq) : UpperSeq[i] = c]
    ELSE c

\* strings.ToLower
ToLower(s) == [i \in 1..Len(s) |-> ToLowerChar(s[i])]

(***************************************************************************)
(* String literals of the program and of the model's inputs.              *)
(***************************************************************************)
str_disk     == <<"d","i","s","k">>
str_true     == <<"t","r","u","e">>
str_source   == <<"s","o","u","r","c","e">>
str_path     == <<"p","a","t","h">>
str_readonly == <<"r","e","a","d","o","n","l","y">>
str_shift    == <<"s","h","i","f","t">>
str_mount_   == <<"m","o","u","n","t","-">>
str_ro       == <<"r","o">>
str_rw       == <<"r","w">>

str_test     == <<"t","e","s","t">>
str_dev1     == <<"d","e","v","1">>
str_repo     == <<"r","e","p","o">>
str_data     == <<"d","a","t","a">>
str_list     == <<"l","i","s","t">>
str_image    == <<"u","b","u","n","t","u">>
str_extra    == <<"e","x","t","r","a">>
str_eth0     == <<"e","t","h","0">>
str_etc      == <<"e","t","c">>
str_nic      == <<"n","i","c">>
str_initial_state == <<"i","n","i","t","i","a","l","-","s","t","a","t","e">>
str_initial  == <<"i","n","i","t","i","a","l">>
str_snap1    == <<"s","n","a","p","1">>

p_root       == <<"/">>
p_ws         == <<"/","w","s">>
p_d          == <<"/","d">>
p_proc       == <<"/","p","r","o","c">>
p_etc        == <<"/","e","t","c">>
p_tmp        == <<"/","t","m","p">>
p_home       == <<"/","h","o","m","e">>
p_var        == <<"/","v","a","r">>
p_opt        == <<"/","o","p","t">>
p_srv_repo   == <<"/","s","r","v","/","r","e","p","o">>
p_srv_data   == <<"/","s","r","v","/","d","a","t","a">>
p_srv_link   == <<"/","s","r","v","/","l","i","n","k">>
p_home_proj  == <<"/","h","o","m","e","/","u","/","p","r","o","j">>
p_nope       == <<"/","n","o","p","e">>
p_host       == <<"/","h","o","s","t">>

(***************************************************************************)
(* Validator (internal/validation).  Every function returns "ok" for a nil *)
(* error and otherwise a tag naming the rule that failed.                  *)
(***************************************************************************)
MaxContainerNameLength == 63
MaxCombinedLength == 63
MinPort == 1
MaxPort == 65535
MaxContainerPathLength == 4096
MaxMountNameLength == 50

\* containerNameRegex: ^[a-zA-Z][a-zA-Z0-9-]*$
containerNameRegex(s) ==
    /\ s # <<>>
    /\ s[1] \in Letter
    /\ \A i \in 2..Len(s) : s[i] \in Letter \cup Digit \cup {"-"}

reservedNames ==
    { <<"l","i","s","t">>, <<"c","r","e","a","t","e">>, <<"d","e","l","e","t","e">>,
      <<"s","t","a","r","t">>, <<"s","t","o","p">>,
      <<"s","n","a","p","s","h","o","t">>, <<"i","m","a","g","e">>,
      <<"c","o","n","f","i","g">> }

BlockedHostPaths ==
    { <<"/">>, <<"/","r","o","o","t">>, <<"/","e","t","c">>, <<"/","b","o","o","t">>,
      <<"/","p","r","o","c">>, <<"/","s","y","s">>, <<"/","d","e","v">>,
      <<"/","v","a","r","/","l","i","b","/","l","x","d">>,
      <<"/","v","a","r","/","l","i","b","/","l","x","c">> }

BlockedHostPatterns ==
    { <<"/",".","s","s","h">>, <<"/",".","a","w","s">>, <<"/",".","g","n","u","p","g">>,
      <<"/",".","c","o","n","f","i","g","/","g","c","l","o","u","d">> }

RiskyHostPaths == { p_home, p_var, p_tmp, p_opt }

BlockedContainerPaths ==
    { <<"/">>, <<"/","p","r","o","c">>, <<"/","s","y","s">>, <<"/","d","e","v">> }

\* the rule checks shared, line for line, by the two name validators
NameGrammarError(name) ==
    IF ~containerNameRegex(name)
    THEN IF name[1] \in Digit THEN "must start with a letter"
         ELSE IF Contains(name, <<" ">>) THEN "cannot contain spaces"
         ELSE IF Contains(name, <<"_">>) THEN "cannot contain underscores"
         ELSE "invalid characters"
    ELSE IF HasPrefix(name, <<"-">>) \/ HasSuffix(name, <<"-">>)
         THEN "cannot start or end with a hyphen"
    ELSE IF Contains(name, <<"-", "-">>) THEN "consecutive hyphens"
    ELSE "ok"

ValidateContainerName(rawName) ==
    LET name == TrimSpace(rawName)
    IN  IF name = <<>> THEN "cannot be empty"
        ELSE IF Len(name) > MaxContainerNameLength THEN "too long"
        ELSE IF NameGrammarError(name) # "ok" THEN NameGrammarError(name)
        ELSE IF ToLower(name) \in reservedNames THEN "reserved name"
        ELSE "ok"

ValidateFullContainerName(project, container) ==
    IF ValidateContainerName(container) # "ok"
    THEN ValidateContainerName(container)
    ELSE LET fullName == IF project # <<>>
                         THEN project \o <<"-">> \o container
                         ELSE container
         IN  IF Len(fullName) > MaxCombinedLength THEN "full name too long" ELSE "ok"

ValidatePort(port) ==
    IF port < MinPort \/ port > MaxPort THEN "invalid port" ELSE "ok"

RECURSIVE ValidatePortsSeen(_, _)
ValidatePortsSeen(ports, seen) ==
    IF ports = <<>> THEN "ok"
    ELSE IF ValidatePort(Head(ports)) # "ok" THEN "invalid port"
    ELSE IF Head(ports) \in seen THEN "duplicate port"
    ELSE ValidatePortsSeen(Tail(ports), seen \cup {Head(ports)})

\* ValidatePorts without the seen map
ValidatePortsNoSeen(ports) ==
    IF \E i \in 1..Len(ports) : ValidatePort(ports[i]) # "ok" THEN "invalid port"
    ELSE "ok"

ValidatePorts(ports) == ValidatePortsSeen(ports, {})

ValidateMountName(rawName) ==
    LET name == TrimSpace(rawName)
    IN  IF name = <<>> THEN "cannot be empty"
        ELSE IF Len(name) > MaxMountNameLength THEN "too long"
        ELSE NameGrammarError(name)

\* the loop of GenerateMountName keeps letters and digits and turns each run of
\* other characters that follows a kept character into one hyphen
\* one pass of the loop body for the character c
MountNameStep(st, c) ==
    IF c \in Letter \cup Digit
    THEN [result |-> Append(st.result, c), prevWasHyphen |-> FALSE]
    ELSE IF ~st.prevWasHyphen /\ Len(st.result) > 0
         THEN [result |-> Append(st.result, "-"), prevWasHyphen |-> TRUE]
         ELSE st

\* the loop body applied to name[lo..hi] in order, starting from st
RECURSIVE MountNameRange(_, _, _, _)
MountNameRange(name, lo, hi, st) ==
    IF lo > hi THEN st
    ELSE IF lo = hi THEN MountNameStep(st, name[lo])
    ELSE LET mid == (lo + hi) \div 2
             left == MountNameRange(name, lo, mid, st)
         IN  \* the first half is finished before the second half starts
             IF Len(left.result) >= 0
             THEN MountNameRange(name, mid + 1, hi, left)
             ELSE left

MountNameLoop(name, result, prevWasHyphen) ==
    MountNameRange(name, 1, Len(name),
                   [result |-> result, prevWasHyphen |-> prevWasHyphen]).result

GenerateMountName(sourcePath) ==
    LET n1 == TrimSuffix(MountNameLoop(Base(sourcePath), <<>>, FALSE), <<"-">>)
        n2 == IF n1 = <<>> \/ n1[1] \in Digit THEN str_mount_ \o n1 ELSE n1
    IN  IF Len(n2) > MaxMountNameLength
        THEN TrimSuffix(SubSeq(n2, 1, MaxMountNameLength), <<"-">>)
        ELSE n2

ValidateContainerPath(path) ==
    IF path = <<>> THEN "cannot be empty"
    ELSE IF ~HasPrefix(path, <<"/">>) THEN "must be absolute"
    ELSE IF Len(path) > MaxContainerPathLength THEN "too long"
    ELSE IF \E i \in 1..Len(path) : path[i] \in {"NUL", "\n", "\r", "\t"}
         THEN "control characters"
    ELSE IF Contains(Clean(path), <<".", ".">>) THEN "path traversal"
    ELSE IF Clean(path) \in BlockedContainerPaths THEN "not allowed"
    ELSE "ok"

(***************************************************************************)
(* The host filesystem ValidateSourcePath looks at: a fixture of existing  *)
(* directories, one regular file and one symbolic link.                    *)
(***************************************************************************)
p_home_ssh  == <<"/","h","o","m","e","/","u","/",".","s","s","h">>
p_srv_etc   == <<"/","s","r","v","/","e","t","c">>
p_srv_keys  == <<"/","s","r","v","/","k","e","y","s">>
p_srv_gone  == <<"/","s","r","v","/","g","o","n","e">>
p_srv_f     == <<"/","s","r","v","/","f">>
p_slash_root == <<"/","r","o","o","t">>

HostDirs ==
    { p_srv_repo, p_srv_data, p_tmp, p_etc, p_home, p_home_proj,
      p_root, p_slash_root, p_var, p_opt, p_home_ssh }
HostFiles == { p_srv_f }

\* the symbolic links of the fixture, each with its target
HostSymlinks ==
    [l \in {p_srv_link, p_srv_etc, p_srv_keys, p_srv_gone} |->
        CASE l = p_srv_link -> p_tmp
          [] l = p_srv_etc  -> p_etc
          [] l = p_srv_keys -> p_home_ssh
          [] l = p_srv_gone -> p_nope]

HostSymlinkTarget(abs) == IF abs \in DOMAIN HostSymlinks THEN HostSymlinks[abs] ELSE abs

\* filepath.EvalSymlinks: the resolved path, or <<>> when nothing is there
EvalSymlinks(abs) ==
    IF HostSymlinkTarget(abs) \in HostDirs \cup HostFiles
    THEN HostSymlinkTarget(abs)
    ELSE <<>>

SourceResult(path, warning, err) == [path |-> path, warning |-> warning, err |-> err]

\* ValidateSourcePath that checks the path as given
ValidateSourcePathLiteral(source) ==
    IF source = <<>> THEN SourceResult(<<>>, "", "cannot be empty")
    ELSE LET absPath == Clean(source)
         IN  IF EvalSymlinks(absPath) = <<>>
             THEN SourceResult(<<>>, "", "does not exist")
             ELSE IF Clean(EvalSymlinks(absPath)) \notin HostDirs
             THEN SourceResult(<<>>, "", "must be a directory")
             ELSE IF absPath \in BlockedHostPaths
             THEN SourceResult(<<>>, "", "not allowed")
             ELSE IF \E pat \in BlockedHostPatterns : HasSuffix(absPath, pat)
             THEN SourceResult(<<>>, "", "pattern not allowed")
             ELSE IF absPath \in RiskyHostPaths
             THEN SourceResult(absPath, "risky", "ok")
             ELSE SourceResult(absPath, "", "ok")

ValidateSourcePath(source) ==
    IF source = <<>> THEN SourceResult(<<>>, "", "cannot be empty")
    ELSE LET absPath == Clean(source)
             resolvedPath == Clean(EvalSymlinks(absPath))
         IN  IF EvalSymlinks(absPath) = <<>>
             THEN SourceResult(<<>>, "", "does not exist")
             ELSE IF resolvedPath \notin HostDirs
             THEN SourceResult(<<>>, "", "must be a directory")
             ELSE IF resolvedPath \in BlockedHostPaths
             THEN SourceResult(<<>>, "", "not allowed")
             ELSE IF \E pat \in BlockedHostPatterns : HasSuffix(resolvedPath, pat)
             THEN SourceResult(<<>>, "", "pattern not allowed")
             ELSE IF resolvedPath \in RiskyHostPaths
             THEN SourceResult(resolvedPath, "risky", "ok")
             ELSE SourceResult(resolvedPath, "", "ok")

(***************************************************************************)
(* ConfigStore (internal/config): the in-memory tree and its accessors.    *)
(* A Go map is a function on the set of its keys; nil and the empty map    *)
(* behave alike in every place the program reads them.                     *)
(***************************************************************************)
EmptyMap == [k \in {} |-> k]

MapPut(m, k, v) == [x \in (DOMAIN m) \cup {k} |-> IF x = k THEN v ELSE m[x]]

MapDelete(m, k) == [x \in (DOMAIN m) \ {k} |-> m[x]]

\* config.Device
Device(type, config) == [Type |-> type, Config |-> config]

\* config.SyncEntry
SyncEntry(source, dest) == [Source |-> source, Dest |-> dest]

\* config.User
User(name, password) == [Name |-> name, Password |-> password]

\* the zero User
NoUser == User(<<>>, <<>>)

\* config.Container without a user of its own
Container(image, ports, sync, snapshots, devices) ==
    [Image |-> image, Ports |-> ports, User |-> NoUser, Sync |-> sync,
     Snapshots |-> snapshots, Devices |-> devices]

\* config.Config without a default user; Dir is not serialized
Config(dir, project, ports, containers) ==
    [Dir |-> dir, Project |-> project,
     Defaults |-> [Ports |-> ports, User |-> NoUser],
     Containers |-> containers]

\* a nil *Config
NilCfg == Config(<<>>, <<>>, <<>>, EmptyMap)

ProjectDir == <<"/","w","o","r","k">>

HasContainer(c, name) == name \in DOMAIN c.Containers

GetLXCName(c, shortName) ==
    IF c.Project = <<>> THEN shortName ELSE c.Project \o <<"-">> \o shortName

AddContainer(c, name, image) ==
    [c EXCEPT !.Containers =
        MapPut(@, name, Container(image, <<>>, <<>>, EmptyMap, EmptyMap))]

\* Config.AddSnapshot; the creation time is of no consequence here
AddSnapshot(c, containerName, snapshotName, description) ==
    [c EXCEPT !.Containers[containerName].Snapshots =
        MapPut(@, snapshotName, [Description |-> description, CreatedAt |-> <<>>])]

RemoveContainer(c, name) == [c EXCEPT !.Containers = MapDelete(@, name)]

GetDevices(c, containerName) ==
    IF HasContainer(c, containerName)
    THEN c.Containers[containerName].Devices
    ELSE EmptyMap

HasDevice(c, containerName, deviceName) ==
    /\ HasContainer(c, containerName)
    /\ deviceName \in DOMAIN c.Containers[containerName].Devices

AddDevice(c, containerName, deviceName, device) ==
    IF ~HasContainer(c, containerName) THEN c
    ELSE [c EXCEPT !.Containers[containerName].Devices = MapPut(@, deviceName, device)]

RemoveDevice(c, containerName, deviceName) ==
    IF ~HasContainer(c, containerName) THEN c
    ELSE [c EXCEPT !.Containers[containerName].Devices = MapDelete(@, deviceName)]

\* the names FindDeviceByPath can return: it ranges over a Go map, so any
\* device whose config path equals the argument may be the one found
FindDeviceByPath(c, containerName, path) ==
    IF ~HasContainer(c, containerName) THEN {}
    ELSE { n \in DOMAIN c.Containers[containerName].Devices :
             LET d == c.Containers[containerName].Devices[n]
             IN  str_path \in DOMAIN d.Config /\ d.Config[str_path] = path }

\* config.Snapshot; the creation time is of no consequence here
Snapshot(description) == [Description |-> description, CreatedAt |-> <<>>]

RemoveSnapshot(c, containerName, snapshotName) ==
    IF ~HasContainer(c, containerName) THEN c
    ELSE [c EXCEPT !.Containers[containerName].Snapshots = MapDelete(@, snapshotName)]

GetSnapshots(c, containerName) ==
    IF HasContainer(c, containerName)
    THEN c.Containers[containerName].Snapshots
    ELSE EmptyMap

HasSnapshot(c, containerName, snapshotName) ==
    /\ HasContainer(c, containerName)
    /\ snapshotName \in DOMAIN c.Containers[containerName].Snapshots

\* index of the first entry with the given source, 0 when there is none
SyncIndex(sync, source) ==
    IF \E i \in 1..Len(sync) : sync[i].Source = source
    THEN CHOOSE i \in 1..Len(sync) :
            /\ sync[i].Source = source
            /\ \A j \in 1..(i - 1) : sync[j].Source # source
    ELSE 0

\* Config.AddSyncEntry that appends whatever the list holds
AddSyncEntryAppend(c, containerName, entry) ==
    IF ~HasContainer(c, containerName) THEN c
    ELSE [c EXCEPT !.Containers[containerName].Sync = Append(@, entry)]

AddSyncEntry(c, containerName, entry) ==
    IF ~HasContainer(c, containerName) THEN c
    ELSE LET sync == c.Containers[containerName].Sync
             i == SyncIndex(sync, entry.Source)
         IN  IF i # 0
             THEN [c EXCEPT !.Containers[containerName].Sync = [sync EXCEPT ![i] = entry]]
             ELSE [c EXCEPT !.Containers[containerName].Sync = Append(sync, entry)]

RemoveSyncEntry(c, containerName, source) ==
    IF ~HasContainer(c, containerName) THEN c
    ELSE LET sync == c.Containers[containerName].Sync
             i == SyncIndex(sync, source)
         IN  IF i # 0
             THEN [c EXCEPT !.Containers[containerName].Sync =
                      SubSeq(sync, 1, i - 1) \o SubSeq(sync, i + 1, Len(sync))]
             ELSE c

str_dev == <<"d","e","v">>

\* Config.GetUser with only the container tier
GetUserNoDefaults(c, name) ==
    IF HasContainer(c, name) /\ c.Containers[name].User.Name # <<>>
    THEN LET user == c.Containers[name].User
         IN  User(user.Name, IF user.Password = <<>> THEN str_dev ELSE user.Password)
    ELSE User(str_dev, str_dev)

\* Config.GetUser
GetUser(c, name) ==
    IF HasContainer(c, name) /\ c.Containers[name].User.Name # <<>>
    THEN LET user == c.Containers[name].User
             pw1 == IF user.Password = <<>> THEN c.Defaults.User.Password
                    ELSE user.Password
             pw2 == IF pw1 = <<>> THEN str_dev ELSE pw1
         IN  User(user.Name, pw2)
    ELSE IF c.Defaults.User.Name # <<>>
    THEN LET user == c.Defaults.User
         IN  User(user.Name, IF user.Password = <<>> THEN str_dev ELSE user.Password)
    ELSE User(str_dev, str_dev)

\* IsValidProjectName: ^[a-zA-Z0-9_-]+$
IsValidProjectName(name) ==
    /\ name # <<>>
    /\ \A i \in 1..Len(name) : name[i] \in Letter \cup Digit \cup {"_", "-"}

containsControlChars(s) == \E i \in 1..Len(s) : s[i] \in ControlChars

validateDevice(device) ==
    IF device.Type = <<>> THEN "device type must not be empty"
    ELSE IF device.Type # str_disk THEN "ok"
    ELSE IF str_source \notin DOMAIN device.Config \/ device.Config[str_source] = <<>>
         THEN "disk device requires source"
    ELSE IF str_path \notin DOMAIN device.Config \/ device.Config[str_path] = <<>>
         THEN "disk device requires path"
    ELSE IF containsControlChars(device.Config[str_source])
         THEN "source path contains control characters"
    ELSE IF containsControlChars(device.Config[str_path])
         THEN "path contains control characters"
    ELSE "ok"

\* Config.Validate without the walk over the devices
ValidateNoDevices(c) ==
    IF c.Project # <<>> /\ ~IsValidProjectName(c.Project) THEN "invalid project name"
    ELSE IF ValidatePorts(c.Defaults.Ports) # "ok" THEN "invalid default ports"
    ELSE IF \E n \in DOMAIN c.Containers :
              \/ ValidateFullContainerName(c.Project, n) # "ok"
              \/ (Len(c.Containers[n].Ports) > 0
                    /\ ValidatePorts(c.Containers[n].Ports) # "ok")
         THEN "invalid container"
    ELSE "ok"

\* Config.Validate: nil exactly when every rule holds (the order in which a
\* Go map is walked only decides which violation is reported)
Validate(c) ==
    IF c.Project # <<>> /\ ~IsValidProjectName(c.Project) THEN "invalid project name"
    ELSE IF ValidatePorts(c.Defaults.Ports) # "ok" THEN "invalid default ports"
    ELSE IF \E n \in DOMAIN c.Containers :
              \/ ValidateFullContainerName(c.Project, n) # "ok"
              \/ (Len(c.Containers[n].Ports) > 0
                    /\ ValidatePorts(c.Containers[n].Ports) # "ok")
              \/ \E d \in DOMAIN c.Containers[n].Devices :
                    validateDevice(c.Containers[n].Devices[d]) # "ok"
         THEN "invalid container"
    ELSE "ok"

(***************************************************************************)
(* Files.  A file is absent, or holds bytes: a YAML document (written in   *)
(* part or in full) or text that does not parse.                           *)
(***************************************************************************)
\* The document tree yaml.Marshal writes: a mapping from yaml keys to
\* values.  A field tagged omitempty has no key when it is empty.
MarshalUserNameOnly(u) ==
    [k \in (IF u.Name # <<>> THEN {"name"} ELSE {}) |-> u.Name]

MarshalUser(u) ==
    [k \in (IF u.Name # <<>> THEN {"name"} ELSE {})
           \cup (IF u.Password # <<>> THEN {"password"} ELSE {}) |->
        IF k = "name" THEN u.Name ELSE u.Password]

MarshalSnapshot(sn) ==
    [k \in {"created_at"}
           \cup (IF sn.Description # <<>> THEN {"description"} ELSE {}) |->
        IF k = "created_at" THEN sn.CreatedAt ELSE sn.Description]

MarshalDevice(dv) ==
    [k \in {"type"} \cup (IF DOMAIN dv.Config # {} THEN {"config"} ELSE {}) |->
        IF k = "type" THEN dv.Type ELSE dv.Config]

MarshalContainer(ct) ==
    [k \in {"image"}
           \cup (IF ct.Ports # <<>> THEN {"ports"} ELSE {})
           \cup (IF ct.User # NoUser THEN {"user"} ELSE {})
           \cup (IF ct.Sync # <<>> THEN {"sync"} ELSE {})
           \cup (IF DOMAIN ct.Snapshots # {} THEN {"snapshots"} ELSE {})
           \cup (IF DOMAIN ct.Devices # {} THEN {"devices"} ELSE {}) |->
        CASE k = "image" -> ct.Image
          [] k = "ports" -> ct.Ports
          [] k = "user" -> MarshalUser(ct.User)
          [] k = "sync" -> [i \in 1..Len(ct.Sync) |->
                              [source |-> ct.Sync[i].Source, dest |-> ct.Sync[i].Dest]]
          [] k = "snapshots" -> [n \in DOMAIN ct.Snapshots |->
                                    MarshalSnapshot(ct.Snapshots[n])]
          [] k = "devices" -> [d \in DOMAIN ct.Devices |-> MarshalDevice(ct.Devices[d])]]

MarshalDefaults(df) ==
    [k \in {"ports"} \cup (IF df.User # NoUser THEN {"user"} ELSE {}) |->
        IF k = "ports" THEN df.Ports ELSE MarshalUser(df.User)]

Marshal(c) ==
    [project |-> c.Project,
     defaults |-> MarshalDefaults(c.Defaults),
     containers |-> [n \in DOMAIN c.Containers |-> MarshalContainer(c.Containers[n])]]

\* yaml.Unmarshal: a field whose key the document does not have keeps its
\* zero value
UnmarshalUser(d) ==
    User(IF "name" \in DOMAIN d THEN d["name"] ELSE <<>>,
         IF "password" \in DOMAIN d THEN d["password"] ELSE <<>>)

UnmarshalSnapshot(d) ==
    [Description |-> IF "description" \in DOMAIN d THEN d["description"] ELSE <<>>,
     CreatedAt |-> IF "created_at" \in DOMAIN d THEN d["created_at"] ELSE <<>>]

UnmarshalDevice(d) ==
    [Type |-> IF "type" \in DOMAIN d THEN d["type"] ELSE <<>>,
     Config |-> IF "config" \in DOMAIN d THEN d["config"] ELSE EmptyMap]

UnmarshalContainer(d) ==
    [Image |-> IF "image" \in DOMAIN d THEN d["image"] ELSE <<>>,
     Ports |-> IF "ports" \in DOMAIN d THEN d["ports"] ELSE <<>>,
     User |-> IF "user" \in DOMAIN d THEN UnmarshalUser(d["user"]) ELSE NoUser,
     Sync |-> IF "sync" \in DOMAIN d
              THEN [i \in 1..Len(d["sync"]) |->
                      [Source |-> d["sync"][i].source, Dest |-> d["sync"][i].dest]]
              ELSE <<>>,
     Snapshots |-> IF "snapshots" \in DOMAIN d
                   THEN [n \in DOMAIN d["snapshots"] |->
                           UnmarshalSnapshot(d["snapshots"][n])]
                   ELSE EmptyMap,
     Devices |-> IF "devices" \in DOMAIN d
                 THEN [n \in DOMAIN d["devices"] |-> UnmarshalDevice(d["devices"][n])]
                 ELSE EmptyMap]

\* yaml.Unmarshal into a Config, then cfg.Dir = dir
Unmarshal(doc, dir) ==
    [Dir |-> dir,
     Project |-> doc.project,
     Defaults |-> [Ports |-> doc.defaults["ports"],
                   User |-> IF "user" \in DOMAIN doc.defaults
                            THEN UnmarshalUser(doc.defaults["user"])
                            ELSE NoUser],
     Containers |-> [n \in DOMAIN doc.containers |->
                        UnmarshalContainer(doc.containers[n])]]

NoDoc == Marshal(NilCfg)

NoFile == [kind |-> "absent", doc |-> NoDoc, written |-> "none"]

\* a file of text that is not YAML
GarbageFile == [kind |-> "garbage", doc |-> NoDoc, written |-> "all"]

\* a file that holds the bytes of doc: none yet, some of them, or all
YamlFile(doc, written) == [kind |-> "yaml", doc |-> doc, written |-> written]

LoadResult(err, c) == [err |-> err, cfg |-> c]

\* config.Load applied to the file found at containers.yaml; an empty dir
\* is the current directory
Load(file, rawDir) ==
    LET dir == IF rawDir = <<>> THEN <<".">> ELSE rawDir
    IN  IF file.kind = "absent" THEN LoadResult("ErrNoProject", NilCfg)
        ELSE IF file.kind = "garbage" \/ file.written # "all"
             THEN LoadResult("invalid YAML", NilCfg)
        ELSE IF Validate(Unmarshal(file.doc, dir)) # "ok"
             THEN LoadResult("invalid configuration", NilCfg)
        ELSE LoadResult("ok", Unmarshal(file.doc, dir))

(***************************************************************************)
(* The container runtime (internal/lxc), an external collaborator: the     *)
(* containers that exist, and for each its privilege flag and its devices. *)
(***************************************************************************)
LxcContainer(privileged, devices) ==
    [privileged |-> privileged, devices |-> devices, snapshots |-> {}]

LxcExists(rt, name) == name \in DOMAIN rt

LxcDeviceAdd(rt, name, dev, type, config) ==
    [rt EXCEPT ![name].devices = MapPut(@, dev, Device(type, config))]

LxcDeviceRemove(rt, name, dev) ==
    [rt EXCEPT ![name].devices = MapDelete(@, dev)]

LxcDelete(rt, name) == MapDelete(rt, name)

LxcSnapshotExists(rt, name, snapshotName) == snapshotName \in rt[name].snapshots

LxcDeleteSnapshot(rt, name, snapshotName) ==
    [rt EXCEPT ![name].snapshots = @ \ {snapshotName}]

(***************************************************************************)
(* State.                                                                  *)
(***************************************************************************)
Procs == {"p1", "p2"}

VARIABLES
    lockFd,   \* per process: its descriptor of containers.yaml.lock:
              \* "closed", "open", or "locked" (it holds the flock)
    waited,   \* per process: ms elapsed since AcquireLock set its deadline
    disk,     \* the file containers.yaml
    tmp,      \* per process: the temporary file of its atomicWriteFile
    cfg,      \* per process: the *Config it works on
    base,     \* per process: the file its Config was loaded from
    pc,       \* per process: where it is in its operation
    op,       \* per process: the operation it runs and that operation's locals
    ret,      \* per process: what the operation returns
    lxc,      \* the runtime's containers
    calls     \* per process: the runtime mutations the operation has issued

vars == <<lockFd, waited, disk, tmp, cfg, base, pc, op, ret, lxc, calls>>

\* lockTimeout and the sleep between two attempts, in milliseconds
LockTimeoutMs == 5000
SleepMs == 100

\* the arguments of Mount: container, source, path and MountOpts
MountArgs(container, source, path, name, rw, shift, allow) ==
    [container |-> container, source |-> source, path |-> path, name |-> name,
     ReadWrite |-> rw, Shift |-> shift, AllowRiskyPath |-> allow]

NoArgs == MountArgs(<<>>, <<>>, <<>>, <<>>, FALSE, FALSE, FALSE)

\* no operation; the fields are the locals an operation keeps between steps
NoOp ==
    [kind |-> "none", force |-> FALSE, todo |-> {}, failed |-> FALSE,
     dev |-> <<>>, args |-> NoArgs, agreed |-> FALSE, adds |-> <<>>,
     mounts |-> <<>>, user |-> NoUser, saved |-> NilCfg, second |-> FALSE,
     resolved |-> SourceResult(<<>>, "", "none"), ports |-> <<>>,
     generated |-> <<>>]

\* the operations the lock, Save and project properties are checked on
SpecKinds == {"mount", "addsync", "rmsync", "destroy"}

LockedKinds ==
    SpecKinds \cup {"unmount", "syncmounts", "rmsnap", "create", "clone", "setports"}

\* the operations that work on a Config obtained from LoadWithLock
UsesLoadWithLock(k) == k \in LockedKinds

\* AcquireLock has returned a ConfigLock to p and p has not finished Release
HoldsConfigLock(p) ==
    pc[p] \in {"held", "load", "lwl_release", "body", "save_create", "save_write",
               "save_sync", "save_close", "save_chmod", "save_rename",
               "save_cleanup", "rollback", "release"}
    /\ (UsesLoadWithLock(op[p].kind) \/ op[p].kind = "lock")

(***************************************************************************)
(* AcquireLock / Release / LoadWithLock.                                   *)
(***************************************************************************)
\* a flock that is granted to everybody
FlockGrantedAlways(p) == TRUE

\* syscall.Flock(fd, LOCK_EX|LOCK_NB) returns nil: no other open file
\* description holds the lock
FlockGranted(p) == \A q \in Procs \ {p} : lockFd[q] # "locked"

\* ConfigLock.Release: unlock and close
Release(p) == lockFd' = [lockFd EXCEPT ![p] = "closed"]

\* A client calls an operation.  The lock-taking ones enter AcquireLock,
\* which opens the lock file and fixes the deadline.
Call(p, k, openOk) ==
    /\ pc[p] = "idle"
    /\ op' = [op EXCEPT ![p] = [NoOp EXCEPT !.kind = k]]
    /\ IF k \in LockedKinds \cup {"lock"}
       THEN IF openOk
            THEN /\ lockFd' = [lockFd EXCEPT ![p] = "open"]
                 /\ waited' = [waited EXCEPT ![p] = 0]
                 /\ pc' = [pc EXCEPT ![p] = "flock"]
                 /\ UNCHANGED ret
            ELSE /\ pc' = [pc EXCEPT ![p] = "done"]
                 /\ ret' = [ret EXCEPT ![p] = "failed to open lock file"]
                 /\ UNCHANGED <<lockFd, waited>>
       ELSE /\ pc' = [pc EXCEPT ![p] = IF k = "create_project" THEN "cp_load" ELSE "dp_load"]
            /\ UNCHANGED <<lockFd, waited, ret>>
    /\ UNCHANGED <<disk, tmp, cfg, base, lxc, calls>>

\* FlockOk that takes the lock whoever holds it
FlockOkBlind(p) ==
    /\ pc[p] = "flock"
    /\ lockFd' = [lockFd EXCEPT ![p] = "locked"]
    /\ pc' = [pc EXCEPT ![p] = IF op[p].kind = "lock" THEN "held" ELSE "load"]
    /\ UNCHANGED <<waited, disk, tmp, cfg, base, op, ret, lxc, calls>>

\* the loop of AcquireLock, an attempt that succeeds
FlockOk(p) ==
    /\ pc[p] = "flock"
    /\ FlockGranted(p)
    /\ lockFd' = [lockFd EXCEPT ![p] = "locked"]
    /\ pc' = [pc EXCEPT ![p] = IF op[p].kind = "lock" THEN "held" ELSE "load"]
    /\ UNCHANGED <<waited, disk, tmp, cfg, base, op, ret, lxc, calls>>

\* an attempt that fails before the deadline: sleep; d is the time that has
\* passed when the next attempt is made, at least the 100 ms of the Sleep
FlockRetry(p, d) ==
    /\ pc[p] = "flock"
    /\ ~FlockGranted(p)
    /\ ~(waited[p] > LockTimeoutMs)
    /\ d >= SleepMs
    /\ waited' = [waited EXCEPT ![p] = @ + d]
    /\ UNCHANGED <<lockFd, disk, tmp, cfg, base, pc, op, ret, lxc, calls>>

\* FlockTimeout that returns the error and leaves the lock file open
FlockTimeoutLeak(p) ==
    /\ pc[p] = "flock"
    /\ ~FlockGranted(p)
    /\ waited[p] > LockTimeoutMs
    /\ pc' = [pc EXCEPT ![p] = "done"]
    /\ ret' = [ret EXCEPT ![p] = "timeout waiting for config lock"]
    /\ UNCHANGED <<lockFd, waited, disk, tmp, cfg, base, op, lxc, calls>>

\* an attempt that fails after the deadline: close the file, return the error
FlockTimeout(p) ==
    /\ pc[p] = "flock"
    /\ ~FlockGranted(p)
    /\ waited[p] > LockTimeoutMs
    /\ lockFd' = [lockFd EXCEPT ![p] = "closed"]
    /\ pc' = [pc EXCEPT ![p] = "done"]
    /\ ret' = [ret EXCEPT ![p] = "timeout waiting for config lock"]
    /\ UNCHANGED <<waited, disk, tmp, cfg, base, op, lxc, calls>>

\* a client that took the lock with AcquireLock alone releases it
UnlockHeld(p) ==
    /\ pc[p] = "held"
    /\ Release(p)
    /\ pc' = [pc EXCEPT ![p] = "done"]
    /\ ret' = [ret EXCEPT ![p] = "ok"]
    /\ UNCHANGED <<waited, disk, tmp, cfg, base, op, lxc, calls>>

\* LoadWithLock after AcquireLock: Load
LoadLocked(p) ==
    /\ pc[p] = "load"
    /\ LET r == Load(disk, ProjectDir)
       IN  IF r.err = "ok"
           THEN /\ cfg' = [cfg EXCEPT ![p] = r.cfg]
                /\ base' = [base EXCEPT ![p] = disk]
                /\ pc' = [pc EXCEPT ![p] = "body"]
                /\ UNCHANGED ret
           ELSE /\ pc' = [pc EXCEPT ![p] = "lwl_release"]
                /\ ret' = [ret EXCEPT ![p] = r.err]
                /\ UNCHANGED <<cfg, base>>
    /\ UNCHANGED <<lockFd, waited, disk, tmp, op, lxc, calls>>

\* LoadFailRelease that returns the error and keeps the lock
LoadFailKeepLock(p) ==
    /\ pc[p] = "lwl_release"
    /\ pc' = [pc EXCEPT ![p] = "done"]
    /\ UNCHANGED <<lockFd, waited, disk, tmp, cfg, base, op, ret, lxc, calls>>

\* LoadWithLock when Load failed: lock.Release(), return nil, nil, err
LoadFailRelease(p) ==
    /\ pc[p] = "lwl_release"
    /\ Release(p)
    /\ pc' = [pc EXCEPT ![p] = "done"]
    /\ UNCHANGED <<waited, disk, tmp, cfg, base, op, ret, lxc, calls>>

\* an operation that returns without its deferred Release
ReturnWithoutRelease(p) ==
    /\ pc[p] = "release"
    /\ pc' = [pc EXCEPT ![p] = "done"]
    /\ UNCHANGED <<lockFd, waited, disk, tmp, cfg, base, op, ret, lxc, calls>>

\* the deferred lock.Release() of an operation, run as it returns
DeferredRelease(p) ==
    /\ pc[p] = "release"
    /\ Release(p)
    /\ pc' = [pc EXCEPT ![p] = "done"]
    /\ UNCHANGED <<waited, disk, tmp, cfg, base, op, ret, lxc, calls>>

\* the operation has returned; the client is ready for its next call
Return(p) ==
    /\ pc[p] = "done"
    /\ pc' = [pc EXCEPT ![p] = "idle"]
    /\ op' = [op EXCEPT ![p] = NoOp]
    /\ ret' = [ret EXCEPT ![p] = "none"]
    /\ cfg' = [cfg EXCEPT ![p] = NilCfg]
    /\ base' = [base EXCEPT ![p] = NoFile]
    /\ calls' = [calls EXCEPT ![p] = <<>>]
    /\ waited' = [waited EXCEPT ![p] = 0]
    /\ UNCHANGED <<lockFd, disk, tmp, lxc>>

\* the process is killed: the OS closes its descriptors, which drops its
\* flock, and nothing it had in memory survives.  containers.yaml stays as
\* it is; a temporary file it leaves behind is read by nobody afterwards
Crash(p) ==
    /\ pc[p] \notin {"idle", "done"}
    /\ lockFd' = [lockFd EXCEPT ![p] = "closed"]
    /\ pc' = [pc EXCEPT ![p] = "idle"]
    /\ op' = [op EXCEPT ![p] = NoOp]
    /\ ret' = [ret EXCEPT ![p] = "none"]
    /\ cfg' = [cfg EXCEPT ![p] = NilCfg]
    /\ base' = [base EXCEPT ![p] = NoFile]
    /\ calls' = [calls EXCEPT ![p] = <<>>]
    /\ waited' = [waited EXCEPT ![p] = 0]
    /\ tmp' = [tmp EXCEPT ![p] = NoFile]
    /\ UNCHANGED <<disk, lxc>>

(***************************************************************************)
(* Config.Save / atomicWriteFile, one step per system call.  ok says       *)
(* whether the call succeeds.                                              *)
(***************************************************************************)
\* where an operation goes on when its Save has returned
AfterSave(p, saved) ==
    IF op[p].kind \in {"create_project", "save"}
    THEN /\ pc' = [pc EXCEPT ![p] = "done"]
         /\ ret' = [ret EXCEPT ![p] = IF saved THEN "ok" ELSE "failed to save config"]
    ELSE IF op[p].kind \in {"create", "clone"}
    THEN IF op[p].second
         THEN /\ pc' = [pc EXCEPT ![p] = "release"]
              /\ ret' = [ret EXCEPT ![p] = "ok"]
         ELSE IF saved
         THEN /\ pc' = [pc EXCEPT ![p] = "snapshot"]
              /\ UNCHANGED ret
         ELSE /\ pc' = [pc EXCEPT ![p] = "release"]
              /\ ret' = [ret EXCEPT ![p] = "failed to save config"]
    ELSE IF saved
    THEN /\ pc' = [pc EXCEPT ![p] = "release"]
         /\ ret' = [ret EXCEPT ![p] = "ok"]
    ELSE IF op[p].kind = "mount"
    THEN /\ pc' = [pc EXCEPT ![p] = "rollback"]
         /\ UNCHANGED ret
    ELSE /\ pc' = [pc EXCEPT ![p] = "release"]
         /\ ret' = [ret EXCEPT ![p] = "failed to save config"]

\* os.CreateTemp(dir, ".containers.yaml.tmp.*")
SaveCreate(p, ok) ==
    /\ pc[p] = "save_create"
    /\ IF ok
       THEN /\ tmp' = [tmp EXCEPT ![p] = YamlFile(Marshal(cfg[p]), "none")]
            /\ pc' = [pc EXCEPT ![p] = "save_write"]
            /\ UNCHANGED ret
       ELSE /\ AfterSave(p, FALSE)
            /\ UNCHANGED tmp
    /\ UNCHANGED <<lockFd, waited, disk, cfg, base, op, lxc, calls>>

\* a Save that writes the data into containers.yaml itself
SaveWriteInPlace(p, ok) ==
    /\ pc[p] = "save_write"
    /\ disk' = YamlFile(Marshal(cfg[p]), IF ok THEN "all" ELSE "some")
    /\ tmp' = [tmp EXCEPT ![p].written = IF ok THEN "all" ELSE "some"]
    /\ pc' = [pc EXCEPT ![p] = IF ok THEN "save_sync" ELSE "save_cleanup"]
    /\ UNCHANGED <<lockFd, waited, cfg, base, op, ret, lxc, calls>>

\* tmp.Write(data); a failed write may have written a part
SaveWrite(p, ok) ==
    /\ pc[p] = "save_write"
    /\ tmp' = [tmp EXCEPT ![p].written = IF ok THEN "all" ELSE "some"]
    /\ pc' = [pc EXCEPT ![p] = IF ok THEN "save_sync" ELSE "save_cleanup"]
    /\ UNCHANGED <<lockFd, waited, disk, cfg, base, op, ret, lxc, calls>>

\* tmp.Sync()
SaveSync(p, ok) ==
    /\ pc[p] = "save_sync"
    /\ pc' = [pc EXCEPT ![p] = IF ok THEN "save_close" ELSE "save_cleanup"]
    /\ UNCHANGED <<lockFd, waited, disk, tmp, cfg, base, op, ret, lxc, calls>>

\* tmp.Close()
SaveClose(p, ok) ==
    /\ pc[p] = "save_close"
    /\ pc' = [pc EXCEPT ![p] = IF ok THEN "save_chmod" ELSE "save_cleanup"]
    /\ UNCHANGED <<lockFd, waited, disk, tmp, cfg, base, op, ret, lxc, calls>>

\* os.Chmod(tmpName, perm)
SaveChmod(p, ok) ==
    /\ pc[p] = "save_chmod"
    /\ pc' = [pc EXCEPT ![p] = IF ok THEN "save_rename" ELSE "save_cleanup"]
    /\ UNCHANGED <<lockFd, waited, disk, tmp, cfg, base, op, ret, lxc, calls>>

\* os.Rename(tmpName, filename): the temporary file becomes the document
SaveRename(p, ok) ==
    /\ pc[p] = "save_rename"
    /\ IF ok
       THEN /\ disk' = tmp[p]
            /\ tmp' = [tmp EXCEPT ![p] = NoFile]
            /\ AfterSave(p, TRUE)
       ELSE /\ pc' = [pc EXCEPT ![p] = "save_cleanup"]
            /\ UNCHANGED <<disk, tmp, ret>>
    /\ UNCHANGED <<lockFd, waited, cfg, base, op, lxc, calls>>

\* a failed atomicWriteFile that leaves its temporary file behind
SaveCleanupKeepTemp(p) ==
    /\ pc[p] = "save_cleanup"
    /\ AfterSave(p, FALSE)
    /\ UNCHANGED <<lockFd, waited, disk, tmp, cfg, base, op, lxc, calls>>

\* the deferred os.Remove(tmpName) of a failed atomicWriteFile
SaveCleanup(p) ==
    /\ pc[p] = "save_cleanup"
    /\ tmp' = [tmp EXCEPT ![p] = NoFile]
    /\ AfterSave(p, FALSE)
    /\ UNCHANGED <<lockFd, waited, disk, cfg, base, op, lxc, calls>>

(***************************************************************************)
(* The lock-taking operations of pkg/lxcmgr, after LoadWithLock.           *)
(***************************************************************************)
\* an operation returns err before it saves; its deferred Release follows
Fail(p, err) ==
    /\ pc' = [pc EXCEPT ![p] = "release"]
    /\ ret' = [ret EXCEPT ![p] = err]

\* Client.AddSyncEntry
AddSyncEntryBody(p, container, entry) ==
    /\ pc[p] = "body"
    /\ op[p].kind = "addsync"
    /\ cfg' = [cfg EXCEPT ![p] = AddSyncEntry(@, container, entry)]
    /\ pc' = [pc EXCEPT ![p] = "save_create"]
    /\ UNCHANGED <<lockFd, waited, disk, tmp, base, op, ret, lxc, calls>>

\* Client.RemoveSyncEntry
RemoveSyncEntryBody(p, container, source) ==
    /\ pc[p] = "body"
    /\ op[p].kind = "rmsync"
    /\ cfg' = [cfg EXCEPT ![p] = RemoveSyncEntry(@, container, source)]
    /\ pc' = [pc EXCEPT ![p] = "save_create"]
    /\ UNCHANGED <<lockFd, waited, disk, tmp, base, op, ret, lxc, calls>>

\* Client.Destroy: delete the runtime container, clear its snapshots
DestroyBody(p, name, deleteOk) ==
    /\ pc[p] = "body"
    /\ op[p].kind = "destroy"
    /\ LET lxcName == GetLXCName(cfg[p], name)
       IN  IF ~HasContainer(cfg[p], name)
           THEN /\ Fail(p, "not found in config")
                /\ UNCHANGED <<cfg, lxc, calls>>
           ELSE IF LxcExists(lxc, lxcName) /\ ~deleteOk
           THEN /\ Fail(p, "runtime delete failed")
                /\ calls' = [calls EXCEPT ![p] = Append(@, "Delete")]
                /\ UNCHANGED <<cfg, lxc>>
           ELSE /\ lxc' = IF LxcExists(lxc, lxcName) THEN LxcDelete(lxc, lxcName) ELSE lxc
                /\ calls' = [calls EXCEPT ![p] =
                                IF LxcExists(lxc, lxcName) THEN Append(@, "Delete") ELSE @]
                /\ cfg' = [cfg EXCEPT ![p].Containers[name].Snapshots = EmptyMap]
                /\ pc' = [pc EXCEPT ![p] = "save_create"]
                /\ UNCHANGED ret
    /\ UNCHANGED <<lockFd, waited, disk, tmp, base, op>>

(***************************************************************************)
(* operations.Mount, called by Client.Mount with the Config it loaded.     *)
(***************************************************************************)
\* the device name Mount uses: opts.Name, or one generated from the source
MountDeviceName(a) ==
    IF a.name = <<>>
    THEN GenerateMountName(ValidateSourcePath(a.source).path)
    ELSE a.name

\* a config map that keeps the source as the caller wrote it
MountDeviceConfigRaw(a) ==
    LET c1 == MapPut(MapPut(EmptyMap, str_source, a.source), str_path, a.path)
        c2 == IF ~a.ReadWrite THEN MapPut(c1, str_readonly, str_true) ELSE c1
    IN  IF a.Shift THEN MapPut(c2, str_shift, str_true) ELSE c2

\* the config map Mount builds
MountDeviceConfig(a) ==
    LET c1 == MapPut(MapPut(EmptyMap, str_source, ValidateSourcePath(a.source).path),
                     str_path, a.path)
        c2 == IF ~a.ReadWrite THEN MapPut(c1, str_readonly, str_true) ELSE c1
    IN  IF a.Shift THEN MapPut(c2, str_shift, str_true) ELSE c2

\* MountCheck without the name and path conflict checks
MountCheckNoConflicts(c, rt, a) ==
    IF ~HasContainer(c, a.container) THEN "not found in config"
    ELSE IF ~LxcExists(rt, GetLXCName(c, a.container)) THEN "does not exist in LXC"
    ELSE IF ValidateSourcePath(a.source).err # "ok" THEN "invalid source path"
    ELSE IF ValidateSourcePath(a.source).warning # "" /\ ~a.AllowRiskyPath
         THEN "risky path"
    ELSE IF ValidateContainerPath(a.path) # "ok" THEN "invalid container path"
    ELSE IF ValidateMountName(MountDeviceName(a)) # "ok" THEN "invalid device name"
    ELSE "ok"

\* MountCheck without the risky path check
MountCheckNoRisk(c, rt, a) ==
    IF ~HasContainer(c, a.container) THEN "not found in config"
    ELSE IF ~LxcExists(rt, GetLXCName(c, a.container)) THEN "does not exist in LXC"
    ELSE IF ValidateSourcePath(a.source).err # "ok" THEN "invalid source path"
    ELSE IF ValidateContainerPath(a.path) # "ok" THEN "invalid container path"
    ELSE IF ValidateMountName(MountDeviceName(a)) # "ok" THEN "invalid device name"
    ELSE IF HasDevice(c, a.container, MountDeviceName(a)) THEN "already exists"
    ELSE IF FindDeviceByPath(c, a.container, a.path) # {} THEN "already mounted"
    ELSE "ok"

\* the error of the checks Mount makes on its arguments and on the Config,
\* in the order of the code; "ok" when they all pass
MountCheck(c, rt, a) ==
    IF ~HasContainer(c, a.container) THEN "not found in config"
    ELSE IF ~LxcExists(rt, GetLXCName(c, a.container)) THEN "does not exist in LXC"
    ELSE IF ValidateSourcePath(a.source).err # "ok" THEN "invalid source path"
    ELSE IF ValidateSourcePath(a.source).warning # "" /\ ~a.AllowRiskyPath
         THEN "risky path"
    ELSE IF ValidateContainerPath(a.path) # "ok" THEN "invalid container path"
    ELSE IF ValidateMountName(MountDeviceName(a)) # "ok" THEN "invalid device name"
    ELSE IF HasDevice(c, a.container, MountDeviceName(a)) THEN "already exists"
    ELSE IF FindDeviceByPath(c, a.container, a.path) # {} THEN "already mounted"
    ELSE "ok"

\* the arguments of one lxc.DeviceAdd call
DeviceAddArgs(name, type, config) == [name |-> name, type |-> type, config |-> config]

\* a Mount that treats a privileged container as any other
MountPrivilegedCheckOff(rt, lxcName, a) == "ok"

\* the checks Mount makes once it knows whether the container is privileged
MountPrivilegedCheck(rt, lxcName, a) ==
    IF ~rt[lxcName].privileged THEN "ok"
    ELSE IF a.ReadWrite THEN "read-write mounts are disabled"
    ELSE IF HasPrefix(ValidateSourcePath(a.source).path, p_home)
         THEN "mounting /home is blocked"
    ELSE "ok"

\* the names of the devices the runtime has on a container
RuntimeDevices(rt, lxcName) ==
    IF LxcExists(rt, lxcName) THEN DOMAIN rt[lxcName].devices ELSE {}

\* the names of the devices a document file declares on a container
DeclaredDevices(file, container) ==
    LET r == Load(file, ProjectDir)
    IN  IF r.err = "ok" /\ HasContainer(r.cfg, container)
        THEN DOMAIN GetDevices(r.cfg, container)
        ELSE {}

\* the runtime and the document on disk name the same devices on a container
DevicesAgree(file, rt, c, container) ==
    RuntimeDevices(rt, GetLXCName(c, container)) = DeclaredDevices(file, container)

\* a Mount that goes on to AddDevice and Save when DeviceAdd has failed
MountBodyAddIgnored(p, a, privOk, addOk) ==
    /\ pc[p] = "body"
    /\ op[p].kind = "mount"
    /\ LET lxcName == GetLXCName(cfg[p], a.container)
           dev == MountDeviceName(a)
       IN  IF MountCheck(cfg[p], lxc, a) # "ok"
           THEN /\ Fail(p, MountCheck(cfg[p], lxc, a))
                /\ op' = [op EXCEPT ![p].args = a]
                /\ UNCHANGED <<cfg, lxc, calls>>
           ELSE IF ~privOk \/ MountPrivilegedCheck(lxc, lxcName, a) # "ok"
           THEN /\ Fail(p, "failed to check container privilege status")
                /\ op' = [op EXCEPT ![p].args = a]
                /\ UNCHANGED <<cfg, lxc, calls>>
           ELSE /\ lxc' = IF addOk
                          THEN LxcDeviceAdd(lxc, lxcName, dev, str_disk, MountDeviceConfig(a))
                          ELSE lxc
                /\ calls' = [calls EXCEPT ![p] = Append(@, "DeviceAdd")]
                /\ cfg' = [cfg EXCEPT ![p] =
                              AddDevice(@, a.container, dev,
                                        Device(str_disk, MountDeviceConfig(a)))]
                /\ op' = [op EXCEPT ![p].args = a, ![p].dev = dev]
                /\ pc' = [pc EXCEPT ![p] = "save_create"]
                /\ UNCHANGED ret
    /\ UNCHANGED <<lockFd, waited, disk, tmp, base>>

\* Mount up to and including lxc.DeviceAdd and cfg.AddDevice.  privOk and
\* addOk say whether the runtime answers IsPrivileged and DeviceAdd.
MountBody(p, a, privOk, addOk) ==
    /\ pc[p] = "body"
    /\ op[p].kind = "mount"
    /\ LET lxcName == GetLXCName(cfg[p], a.container)
           dev == MountDeviceName(a)
       IN  IF MountCheck(cfg[p], lxc, a) # "ok"
           THEN /\ Fail(p, MountCheck(cfg[p], lxc, a))
                /\ op' = [op EXCEPT ![p].args = a,
                                    ![p].agreed = DevicesAgree(disk, lxc, cfg[p], a.container)]
                /\ UNCHANGED <<cfg, lxc, calls>>
           ELSE IF ~privOk
           THEN /\ Fail(p, "failed to check container privilege status")
                /\ op' = [op EXCEPT ![p].args = a,
                                    ![p].agreed = DevicesAgree(disk, lxc, cfg[p], a.container)]
                /\ UNCHANGED <<cfg, lxc, calls>>
           ELSE IF MountPrivilegedCheck(lxc, lxcName, a) # "ok"
           THEN /\ Fail(p, MountPrivilegedCheck(lxc, lxcName, a))
                /\ op' = [op EXCEPT ![p].args = a,
                                    ![p].agreed = DevicesAgree(disk, lxc, cfg[p], a.container)]
                /\ UNCHANGED <<cfg, lxc, calls>>
           ELSE IF ~addOk
           THEN /\ Fail(p, "failed to add device to container")
                /\ op' = [op EXCEPT ![p].args = a,
                                    ![p].agreed = DevicesAgree(disk, lxc, cfg[p], a.container),
                                    ![p].dev = dev,
                                    ![p].adds = Append(@, DeviceAddArgs(dev, str_disk, MountDeviceConfig(a)))]
                /\ calls' = [calls EXCEPT ![p] = Append(@, "DeviceAdd")]
                /\ UNCHANGED <<cfg, lxc>>
           ELSE /\ lxc' = LxcDeviceAdd(lxc, lxcName, dev, str_disk, MountDeviceConfig(a))
                /\ calls' = [calls EXCEPT ![p] = Append(@, "DeviceAdd")]
                /\ cfg' = [cfg EXCEPT ![p] =
                              AddDevice(@, a.container, dev,
                                        Device(str_disk, MountDeviceConfig(a)))]
                /\ op' = [op EXCEPT ![p].args = a,
                                    ![p].agreed = DevicesAgree(disk, lxc, cfg[p], a.container),
                                    ![p].dev = dev,
                                    ![p].adds = Append(@, DeviceAddArgs(dev, str_disk, MountDeviceConfig(a)))]
                /\ pc' = [pc EXCEPT ![p] = "save_create"]
                /\ UNCHANGED ret
    /\ UNCHANGED <<lockFd, waited, disk, tmp, base>>

\* a Mount that returns the Save error without calling DeviceRemove
MountNoRollback(p, removeOk) ==
    /\ pc[p] = "rollback"
    /\ Fail(p, "failed to save config")
    /\ UNCHANGED <<lockFd, waited, disk, tmp, cfg, base, op, lxc, calls>>

\* Save failed: lxc.DeviceRemove(lxcName, deviceName), its error ignored
MountRollback(p, removeOk) ==
    /\ pc[p] = "rollback"
    /\ LET lxcName == GetLXCName(cfg[p], op[p].args.container)
       IN  /\ lxc' = IF removeOk /\ LxcExists(lxc, lxcName)
                     THEN LxcDeviceRemove(lxc, lxcName, op[p].dev)
                     ELSE lxc
           /\ calls' = [calls EXCEPT ![p] = Append(@, "DeviceRemove")]
           /\ op' = [op EXCEPT ![p].failed = ~(removeOk /\ LxcExists(lxc, lxcName))]
    /\ Fail(p, "failed to save config")
    /\ UNCHANGED <<lockFd, waited, disk, tmp, cfg, base>>

(***************************************************************************)
(* operations.Unmount, ListMounts and SyncMounts.                          *)
(***************************************************************************)
\* the characters of the names and paths used here, in byte order
AsciiOrder ==
    <<"-", ".", "/", "0", "1", "2", "3", "4", "5", "6", "7", "8", "9", "_",
      "a", "b", "c", "d", "e", "f", "g", "h", "i", "j", "k", "l", "m",
      "n", "o", "p", "q", "r", "s", "t", "u", "v", "w", "x", "y", "z">>

CharCode(ch) == CHOOSE i \in 1..Len(AsciiOrder) : AsciiOrder[i] = ch

\* a < b on Go strings
RECURSIVE StrLess(_, _)
StrLess(a, b) ==
    IF b = <<>> THEN FALSE
    ELSE IF a = <<>> THEN TRUE
    ELSE IF Head(a) = Head(b) THEN StrLess(Tail(a), Tail(b))
    ELSE CharCode(Head(a)) < CharCode(Head(b))

\* m[k] of a Go map[string]string: the empty string for a missing key
MapGet(m, k) == IF k \in DOMAIN m THEN m[k] ELSE <<>>

GetMode(deviceConfig) ==
    IF MapGet(deviceConfig, str_readonly) = str_true THEN str_ro ELSE str_rw

\* operations.MountInfo
MountInfo(name, source, path, mode, status) ==
    [Name |-> name, Source |-> source, Path |-> path, Mode |-> mode,
     Status |-> status]

\* an order that puts the declared devices before the untracked ones
RECURSIVE ConfigFirst(_)
ConfigFirst(infos) ==
    IF infos = {} THEN <<>>
    ELSE LET first == CHOOSE m \in infos :
                        \A o \in infos \ {m} :
                           \/ (m.Status # "untracked" /\ o.Status = "untracked")
                           \/ /\ (m.Status = "untracked") = (o.Status = "untracked")
                              /\ StrLess(m.Name, o.Name)
         IN  <<first>> \o ConfigFirst(infos \ {first})

\* sort.Slice by Name; the names of the entries are distinct
RECURSIVE SortByName(_)
SortByName(infos) ==
    IF infos = {} THEN <<>>
    ELSE LET first == CHOOSE m \in infos :
                        \A o \in infos \ {m} : StrLess(m.Name, o.Name)
         IN  <<first>> \o SortByName(infos \ {first})

ListResult(mounts, err) == [mounts |-> mounts, err |-> err]

\* entries for the live devices of every type
ListEntriesAnyType(configDevices, lxcDevices) ==
    LET seenNames == {n \in DOMAIN configDevices : configDevices[n].Type = str_disk}
    IN  { MountInfo(n, MapGet(configDevices[n].Config, str_source),
                    MapGet(configDevices[n].Config, str_path),
                    GetMode(configDevices[n].Config),
                    IF n \in DOMAIN lxcDevices THEN "ok" ELSE "missing") :
            n \in seenNames }
        \cup
        { MountInfo(n, MapGet(lxcDevices[n].Config, str_source),
                    MapGet(lxcDevices[n].Config, str_path),
                    GetMode(lxcDevices[n].Config), "untracked") :
            n \in DOMAIN lxcDevices \ seenNames }

\* the entries ListMounts collects before it sorts them.  lxcDevices is
\* what lxc.DeviceList returned
ListEntries(configDevices, lxcDevices) ==
    LET lxcDiskDevices == {n \in DOMAIN lxcDevices : lxcDevices[n].Type = str_disk}
        seenNames == {n \in DOMAIN configDevices : configDevices[n].Type = str_disk}
    IN  { MountInfo(n, MapGet(configDevices[n].Config, str_source),
                    MapGet(configDevices[n].Config, str_path),
                    GetMode(configDevices[n].Config),
                    IF n \in lxcDiskDevices THEN "ok" ELSE "missing") :
            n \in seenNames }
        \cup
        { MountInfo(n, MapGet(lxcDevices[n].Config, str_source),
                    MapGet(lxcDevices[n].Config, str_path),
                    GetMode(lxcDevices[n].Config), "untracked") :
            n \in lxcDiskDevices \ seenNames }

\* operations.ListMounts; listOk says whether lxc.DeviceList answers
ListMounts(c, rt, containerName, listOk) ==
    IF ~HasContainer(c, containerName) THEN ListResult(<<>>, "not found in config")
    ELSE IF ~LxcExists(rt, GetLXCName(c, containerName))
    THEN ListResult(<<>>, "does not exist in LXC")
    ELSE IF ~listOk THEN ListResult(<<>>, "failed to list devices")
    ELSE ListResult(SortByName(ListEntries(GetDevices(c, containerName),
                                           rt[GetLXCName(c, containerName)].devices)),
                    "ok")

\* the mounts command without --sync, Client.ListMounts: no lock is taken
ListMountsCall(p, containerName, listOk) ==
    /\ pc[p] = "idle"
    /\ LET r == Load(disk, ProjectDir)
           l == ListMounts(r.cfg, lxc, containerName, listOk)
       IN  IF r.err # "ok"
           THEN /\ ret' = [ret EXCEPT ![p] = r.err]
                /\ op' = [op EXCEPT ![p] = [NoOp EXCEPT !.kind = "listmounts"]]
                /\ UNCHANGED <<cfg, base>>
           ELSE /\ cfg' = [cfg EXCEPT ![p] = r.cfg]
                /\ base' = [base EXCEPT ![p] = disk]
                /\ ret' = [ret EXCEPT ![p] = l.err]
                /\ op' = [op EXCEPT ![p] = [NoOp EXCEPT !.kind = "listmounts",
                                                       !.mounts = l.mounts]]
    /\ pc' = [pc EXCEPT ![p] = "done"]
    /\ UNCHANGED <<lockFd, waited, disk, tmp, lxc, calls>>

\* an Unmount that takes a path for a device name
UnmountResolveLiteral(c, containerName, nameOrPath) ==
    {[name |-> nameOrPath, found |-> TRUE]}

\* the device names Unmount may end up with, and whether the lookup by
\* path found one
UnmountResolve(c, containerName, nameOrPath) ==
    IF HasPrefix(nameOrPath, <<"/">>)
    THEN IF FindDeviceByPath(c, containerName, nameOrPath) = {}
         THEN {[name |-> <<>>, found |-> FALSE]}
         ELSE {[name |-> n, found |-> TRUE] :
                 n \in FindDeviceByPath(c, containerName, nameOrPath)}
    ELSE {[name |-> nameOrPath, found |-> TRUE]}

\* an Unmount that goes on to RemoveDevice and Save when DeviceRemove has failed
UnmountBodyRemoveIgnored(p, containerName, nameOrPath, removeOk) ==
    /\ pc[p] = "body"
    /\ op[p].kind = "unmount"
    /\ \E r \in UnmountResolve(cfg[p], containerName, nameOrPath) :
        LET lxcName == GetLXCName(cfg[p], containerName)
            a == MountArgs(containerName, <<>>, nameOrPath, <<>>, FALSE, FALSE, FALSE)
        IN  IF ~HasContainer(cfg[p], containerName)
            THEN /\ Fail(p, "not found in config")
                 /\ op' = [op EXCEPT ![p].args = a]
                 /\ UNCHANGED <<cfg, lxc, calls>>
            ELSE IF ~LxcExists(lxc, lxcName)
            THEN /\ Fail(p, "does not exist in LXC")
                 /\ op' = [op EXCEPT ![p].args = a]
                 /\ UNCHANGED <<cfg, lxc, calls>>
            ELSE IF ~r.found
            THEN /\ Fail(p, "no device found with path")
                 /\ op' = [op EXCEPT ![p].args = a]
                 /\ UNCHANGED <<cfg, lxc, calls>>
            ELSE IF ~HasDevice(cfg[p], containerName, r.name)
            THEN /\ Fail(p, "device not found")
                 /\ op' = [op EXCEPT ![p].args = a, ![p].dev = r.name]
                 /\ UNCHANGED <<cfg, lxc, calls>>
            ELSE /\ lxc' = IF removeOk THEN LxcDeviceRemove(lxc, lxcName, r.name) ELSE lxc
                 /\ calls' = [calls EXCEPT ![p] = Append(@, "DeviceRemove")]
                 /\ cfg' = [cfg EXCEPT ![p] = RemoveDevice(@, containerName, r.name)]
                 /\ op' = [op EXCEPT ![p].args = a, ![p].dev = r.name]
                 /\ pc' = [pc EXCEPT ![p] = "save_create"]
                 /\ UNCHANGED ret
    /\ UNCHANGED <<lockFd, waited, disk, tmp, base>>

\* operations.Unmount up to cfg.RemoveDevice; removeOk says whether the
\* runtime answers DeviceRemove
UnmountBody(p, containerName, nameOrPath, removeOk) ==
    /\ pc[p] = "body"
    /\ op[p].kind = "unmount"
    /\ \E r \in UnmountResolve(cfg[p], containerName, nameOrPath) :
        LET lxcName == GetLXCName(cfg[p], containerName)
            a == MountArgs(containerName, <<>>, nameOrPath, <<>>, FALSE, FALSE, FALSE)
        IN  IF ~HasContainer(cfg[p], containerName)
            THEN /\ Fail(p, "not found in config")
                 /\ op' = [op EXCEPT ![p].args = a]
                 /\ UNCHANGED <<cfg, lxc, calls>>
            ELSE IF ~LxcExists(lxc, lxcName)
            THEN /\ Fail(p, "does not exist in LXC")
                 /\ op' = [op EXCEPT ![p].args = a]
                 /\ UNCHANGED <<cfg, lxc, calls>>
            ELSE IF ~r.found
            THEN /\ Fail(p, "no device found with path")
                 /\ op' = [op EXCEPT ![p].args = a]
                 /\ UNCHANGED <<cfg, lxc, calls>>
            ELSE IF ~HasDevice(cfg[p], containerName, r.name)
            THEN /\ Fail(p, "device not found")
                 /\ op' = [op EXCEPT ![p].args = a, ![p].dev = r.name]
                 /\ UNCHANGED <<cfg, lxc, calls>>
            ELSE IF ~removeOk
            THEN /\ Fail(p, "failed to remove device from LXC")
                 /\ op' = [op EXCEPT ![p].args = a, ![p].dev = r.name]
                 /\ calls' = [calls EXCEPT ![p] = Append(@, "DeviceRemove")]
                 /\ UNCHANGED <<cfg, lxc>>
            ELSE /\ lxc' = LxcDeviceRemove(lxc, lxcName, r.name)
                 /\ calls' = [calls EXCEPT ![p] = Append(@, "DeviceRemove")]
                 /\ cfg' = [cfg EXCEPT ![p] = RemoveDevice(@, containerName, r.name)]
                 /\ op' = [op EXCEPT ![p].args = a, ![p].dev = r.name]
                 /\ pc' = [pc EXCEPT ![p] = "save_create"]
                 /\ UNCHANGED ret
    /\ UNCHANGED <<lockFd, waited, disk, tmp, base>>

\* the Config, the runtime, the DeviceAdd calls and the error of the
\* SyncMounts loop so far
SyncState(c, rt, adds, err) == [cfg |-> c, lxc |-> rt, adds |-> adds, err |-> err]

\* a device declared read-only whatever the mode of the entry
UntrackedDeviceReadOnly(m) ==
    Device(str_disk,
           MapPut(MapPut(MapPut(EmptyMap, str_source, m.Source), str_path, m.Path),
                  str_readonly, str_true))

\* the device SyncMounts declares for an untracked entry
UntrackedDevice(m) ==
    Device(str_disk,
           IF m.Mode = str_ro
           THEN MapPut(MapPut(MapPut(EmptyMap, str_source, m.Source),
                              str_path, m.Path), str_readonly, str_true)
           ELSE MapPut(MapPut(EmptyMap, str_source, m.Source), str_path, m.Path))

\* a loop that goes on after a DeviceAdd has failed
RECURSIVE SyncLoopBestEffort(_, _, _, _, _, _)
SyncLoopBestEffort(ms, configDevices, containerName, lxcName, st, failAt) ==
    IF ms = <<>> THEN st
    ELSE LET m == Head(ms)
         IN  IF m.Status = "untracked"
             THEN SyncLoopBestEffort(Tail(ms), configDevices, containerName, lxcName,
                      [st EXCEPT !.cfg = AddDevice(@, containerName, m.Name,
                                                   UntrackedDevice(m))],
                      failAt)
             ELSE IF m.Status = "missing"
             THEN LET device == configDevices[m.Name]
                      call == DeviceAddArgs(m.Name, device.Type, device.Config)
                  IN  SyncLoopBestEffort(Tail(ms), configDevices, containerName, lxcName,
                          [st EXCEPT !.adds = Append(@, call),
                                     !.lxc = IF Len(st.adds) + 1 = failAt THEN @
                                             ELSE LxcDeviceAdd(@, lxcName, m.Name,
                                                               device.Type, device.Config)],
                          failAt)
             ELSE SyncLoopBestEffort(Tail(ms), configDevices, containerName, lxcName,
                                     st, failAt)

\* the loop of SyncMounts over the entries ListMounts returned.  The
\* failAt-th DeviceAdd of the call fails; 0: none does
RECURSIVE SyncLoop(_, _, _, _, _, _)
SyncLoop(ms, configDevices, containerName, lxcName, st, failAt) ==
    IF ms = <<>> THEN st
    ELSE LET m == Head(ms)
         IN  IF m.Status = "untracked"
             THEN SyncLoop(Tail(ms), configDevices, containerName, lxcName,
                           [st EXCEPT !.cfg = AddDevice(@, containerName, m.Name,
                                                        UntrackedDevice(m))],
                           failAt)
             ELSE IF m.Status = "missing"
             THEN LET device == configDevices[m.Name]
                      call == DeviceAddArgs(m.Name, device.Type, device.Config)
                  IN  IF Len(st.adds) + 1 = failAt
                      THEN [st EXCEPT !.adds = Append(@, call),
                                      !.err = "failed to re-add device"]
                      ELSE SyncLoop(Tail(ms), configDevices, containerName, lxcName,
                                    [st EXCEPT !.adds = Append(@, call),
                                               !.lxc = LxcDeviceAdd(@, lxcName, m.Name,
                                                                    device.Type,
                                                                    device.Config)],
                                    failAt)
             ELSE SyncLoop(Tail(ms), configDevices, containerName, lxcName, st, failAt)

\* operations.SyncMounts up to cfg.Save
SyncMountsBody(p, containerName, listOk, failAt) ==
    /\ pc[p] = "body"
    /\ op[p].kind = "syncmounts"
    /\ LET lxcName == GetLXCName(cfg[p], containerName)
           l == ListMounts(cfg[p], lxc, containerName, listOk)
           a == MountArgs(containerName, <<>>, <<>>, <<>>, FALSE, FALSE, FALSE)
           r == SyncLoop(l.mounts, GetDevices(cfg[p], containerName), containerName,
                         lxcName, SyncState(cfg[p], lxc, <<>>, "ok"), failAt)
       IN  IF l.err # "ok"
           THEN /\ Fail(p, l.err)
                /\ op' = [op EXCEPT ![p].args = a]
                /\ UNCHANGED <<cfg, lxc, calls>>
           ELSE /\ cfg' = [cfg EXCEPT ![p] = r.cfg]
                /\ lxc' = r.lxc
                /\ calls' = [calls EXCEPT ![p] =
                                @ \o [i \in 1..Len(r.adds) |-> "DeviceAdd"]]
                /\ op' = [op EXCEPT ![p].args = a, ![p].adds = r.adds,
                                    ![p].mounts = l.mounts]
                /\ IF r.err # "ok"
                   THEN Fail(p, r.err)
                   ELSE /\ pc' = [pc EXCEPT ![p] = "save_create"]
                        /\ UNCHANGED ret
    /\ UNCHANGED <<lockFd, waited, disk, tmp, base>>

(***************************************************************************)
(* operations.DeleteSnapshot.                                              *)
(***************************************************************************)
\* a DeleteSnapshot that protects no snapshot
DeleteSnapshotUnprotected(p, containerName, snapshotName, deleteOk) ==
    /\ pc[p] = "body"
    /\ op[p].kind = "rmsnap"
    /\ LET lxcName == GetLXCName(cfg[p], containerName)
           a == MountArgs(containerName, <<>>, <<>>, snapshotName, FALSE, FALSE, FALSE)
       IN  /\ op' = [op EXCEPT ![p].args = a]
           /\ IF ~HasContainer(cfg[p], containerName)
              THEN /\ Fail(p, "not found in config")
                   /\ UNCHANGED <<cfg, lxc, calls>>
              ELSE IF ~LxcExists(lxc, lxcName)
              THEN /\ Fail(p, "does not exist in LXC")
                   /\ UNCHANGED <<cfg, lxc, calls>>
              ELSE IF ~LxcSnapshotExists(lxc, lxcName, snapshotName)
              THEN /\ Fail(p, "snapshot does not exist")
                   /\ UNCHANGED <<cfg, lxc, calls>>
              ELSE IF ~deleteOk
              THEN /\ Fail(p, "failed to delete snapshot")
                   /\ calls' = [calls EXCEPT ![p] = Append(@, "DeleteSnapshot")]
                   /\ UNCHANGED <<cfg, lxc>>
              ELSE /\ lxc' = LxcDeleteSnapshot(lxc, lxcName, snapshotName)
                   /\ calls' = [calls EXCEPT ![p] = Append(@, "DeleteSnapshot")]
                   /\ cfg' = [cfg EXCEPT ![p] =
                                 RemoveSnapshot(@, containerName, snapshotName)]
                   /\ pc' = [pc EXCEPT ![p] = "save_create"]
                   /\ UNCHANGED ret
    /\ UNCHANGED <<lockFd, waited, disk, tmp, base>>

\* operations.DeleteSnapshot up to cfg.RemoveSnapshot; deleteOk says whether
\* the runtime answers DeleteSnapshot
DeleteSnapshotBody(p, containerName, snapshotName, deleteOk) ==
    /\ pc[p] = "body"
    /\ op[p].kind = "rmsnap"
    /\ LET lxcName == GetLXCName(cfg[p], containerName)
           a == MountArgs(containerName, <<>>, <<>>, snapshotName, FALSE, FALSE, FALSE)
       IN  /\ op' = [op EXCEPT ![p].args = a]
           /\ IF ~HasContainer(cfg[p], containerName)
              THEN /\ Fail(p, "not found in config")
                   /\ UNCHANGED <<cfg, lxc, calls>>
              ELSE IF ~LxcExists(lxc, lxcName)
              THEN /\ Fail(p, "does not exist in LXC")
                   /\ UNCHANGED <<cfg, lxc, calls>>
              ELSE IF snapshotName = str_initial_state
              THEN /\ Fail(p, "cannot delete 'initial-state' snapshot")
                   /\ UNCHANGED <<cfg, lxc, calls>>
              ELSE IF ~LxcSnapshotExists(lxc, lxcName, snapshotName)
              THEN /\ Fail(p, "snapshot does not exist")
                   /\ UNCHANGED <<cfg, lxc, calls>>
              ELSE IF ~deleteOk
              THEN /\ Fail(p, "failed to delete snapshot")
                   /\ calls' = [calls EXCEPT ![p] = Append(@, "DeleteSnapshot")]
                   /\ UNCHANGED <<cfg, lxc>>
              ELSE /\ lxc' = LxcDeleteSnapshot(lxc, lxcName, snapshotName)
                   /\ calls' = [calls EXCEPT ![p] = Append(@, "DeleteSnapshot")]
                   /\ cfg' = [cfg EXCEPT ![p] =
                                 RemoveSnapshot(@, containerName, snapshotName)]
                   /\ pc' = [pc EXCEPT ![p] = "save_create"]
                   /\ UNCHANGED ret
    /\ UNCHANGED <<lockFd, waited, disk, tmp, base>>

(***************************************************************************)
(* operations.CreateContainer and operations.Clone, called by the Client   *)
(* after LoadWithLock.                                                     *)
(***************************************************************************)
str_cloned_from == <<":","c","l","o","n","e","d","-","f","r","o","m","-">>

LxcLaunch(rt, name) == MapPut(rt, name, LxcContainer(FALSE, EmptyMap))

LxcCopy(rt, source, new) == MapPut(rt, new, [rt[source] EXCEPT !.snapshots = {}])

LxcSnapshot(rt, name, snapshotName) ==
    [rt EXCEPT ![name].snapshots = @ \cup {snapshotName}]

\* the checks of CreateContainer without the two validator calls
CreateCheckUnvalidated(c, rt, name) ==
    IF HasContainer(c, name) THEN "already exists in config"
    ELSE IF LxcExists(rt, GetLXCName(c, name)) THEN "already exists in LXC"
    ELSE "ok"

\* the checks CreateContainer makes before Launch
CreateCheck(c, rt, name) ==
    IF ValidateContainerName(name) # "ok" THEN "invalid container name"
    ELSE IF ValidateFullContainerName(c.Project, name) # "ok"
         THEN ValidateFullContainerName(c.Project, name)
    ELSE IF HasContainer(c, name) THEN "already exists in config"
    ELSE IF LxcExists(rt, GetLXCName(c, name)) THEN "already exists in LXC"
    ELSE "ok"

\* the steps of CreateContainer between Launch and AddContainer that return
\* an error
CreateFailures ==
    [ready |-> "not ready", user |-> "failed to set up user",
     ssh |-> "failed to enable SSH"]

\* CreateContainer up to its first Save.  failAt names the runtime call that
\* fails, if any.
CreateContainerBody(p, name, failAt) ==
    /\ pc[p] = "body"
    /\ op[p].kind = "create"
    /\ op' = [op EXCEPT ![p].args.container = name]
    /\ LET lxcName == GetLXCName(cfg[p], name)
           err == CreateCheck(cfg[p], lxc, name)
       IN  IF err # "ok"
           THEN /\ Fail(p, err)
                /\ UNCHANGED <<cfg, lxc, calls>>
           ELSE /\ calls' = [calls EXCEPT ![p] = Append(@, "Launch")]
                /\ IF failAt = "launch"
                   THEN /\ Fail(p, "launch failed")
                        /\ UNCHANGED <<cfg, lxc>>
                   ELSE /\ lxc' = LxcLaunch(lxc, lxcName)
                        /\ IF failAt \in DOMAIN CreateFailures
                           THEN /\ Fail(p, CreateFailures[failAt])
                                /\ UNCHANGED cfg
                           ELSE /\ cfg' = [cfg EXCEPT ![p] = AddContainer(@, name, str_image)]
                                /\ pc' = [pc EXCEPT ![p] = "save_create"]
                                /\ UNCHANGED ret
    /\ UNCHANGED <<lockFd, waited, disk, tmp, base>>

\* the checks Clone makes before Copy or CopySnapshot
CloneCheck(c, rt, sourceName, newName, fromSnapshot) ==
    IF ValidateContainerName(newName) # "ok" THEN "invalid container name"
    ELSE IF ValidateFullContainerName(c.Project, newName) # "ok"
         THEN ValidateFullContainerName(c.Project, newName)
    ELSE IF ~HasContainer(c, sourceName) THEN "source not found in config"
    ELSE IF ~LxcExists(rt, GetLXCName(c, sourceName)) THEN "source does not exist in LXC"
    ELSE IF HasContainer(c, newName) THEN "already exists in config"
    ELSE IF LxcExists(rt, GetLXCName(c, newName)) THEN "already exists in LXC"
    ELSE IF fromSnapshot # <<>>
            /\ ~LxcSnapshotExists(rt, GetLXCName(c, sourceName), fromSnapshot)
         THEN "snapshot does not exist"
    ELSE "ok"

\* Clone up to its first Save
CloneBody(p, sourceName, newName, fromSnapshot, copyOk) ==
    /\ pc[p] = "body"
    /\ op[p].kind = "clone"
    /\ op' = [op EXCEPT ![p].args.container = newName, ![p].args.source = sourceName]
    /\ LET err == CloneCheck(cfg[p], lxc, sourceName, newName, fromSnapshot)
       IN  IF err # "ok"
           THEN /\ Fail(p, err)
                /\ UNCHANGED <<cfg, lxc, calls>>
           ELSE /\ calls' = [calls EXCEPT ![p] =
                               Append(@, IF fromSnapshot # <<>> THEN "CopySnapshot"
                                         ELSE "Copy")]
                /\ IF ~copyOk
                   THEN /\ Fail(p, "copy failed")
                        /\ UNCHANGED <<cfg, lxc>>
                   ELSE /\ lxc' = LxcCopy(lxc, GetLXCName(cfg[p], sourceName),
                                          GetLXCName(cfg[p], newName))
                        /\ cfg' = [cfg EXCEPT ![p] =
                                      AddContainer(@, newName,
                                          @.Containers[sourceName].Image
                                            \o str_cloned_from \o sourceName)]
                        /\ pc' = [pc EXCEPT ![p] = "save_create"]
                        /\ UNCHANGED ret
    /\ UNCHANGED <<lockFd, waited, disk, tmp, base>>

\* after the first Save of CreateContainer or Clone: take the snapshot
\* initial-state and, when that worked, record it and save once more
InitialSnapshot(p, snapOk) ==
    /\ pc[p] = "snapshot"
    /\ LET name == op[p].args.container
       IN  IF snapOk
           THEN /\ lxc' = LxcSnapshot(lxc, GetLXCName(cfg[p], name), str_initial_state)
                /\ cfg' = [cfg EXCEPT ![p] =
                              AddSnapshot(@, name, str_initial_state, str_initial)]
                /\ op' = [op EXCEPT ![p].second = TRUE]
                /\ pc' = [pc EXCEPT ![p] = "save_create"]
                /\ UNCHANGED ret
           ELSE /\ pc' = [pc EXCEPT ![p] = "release"]
                /\ ret' = [ret EXCEPT ![p] = "ok"]
                /\ UNCHANGED <<lxc, cfg, op>>
    /\ UNCHANGED <<lockFd, waited, disk, tmp, base, calls>>

(***************************************************************************)
(* operations.CreateProject and operations.DeleteProject.  Neither takes   *)
(* the config lock.                                                        *)
(***************************************************************************)
\* CreateProject: Load, then build the Config of the new project
CreateProjectLoad(p, name, ports) ==
    /\ pc[p] = "cp_load"
    /\ LET r == Load(disk, ProjectDir)
       IN  IF r.err \notin {"ok", "ErrNoProject"}
           THEN /\ pc' = [pc EXCEPT ![p] = "done"]
                /\ ret' = [ret EXCEPT ![p] = "failed to load config"]
                /\ UNCHANGED cfg
           ELSE IF r.err = "ok"
           THEN /\ pc' = [pc EXCEPT ![p] = "done"]
                /\ ret' = [ret EXCEPT ![p] = "project already exists"]
                /\ UNCHANGED cfg
           ELSE IF ~IsValidProjectName(name)
           THEN /\ pc' = [pc EXCEPT ![p] = "done"]
                /\ ret' = [ret EXCEPT ![p] = "invalid project name"]
                /\ UNCHANGED cfg
           ELSE /\ cfg' = [cfg EXCEPT ![p] = Config(ProjectDir, name, ports, EmptyMap)]
                /\ pc' = [pc EXCEPT ![p] = "save_create"]
                /\ UNCHANGED ret
    /\ UNCHANGED <<lockFd, waited, disk, tmp, base, op, lxc, calls>>

\* DeleteProject: Load
DeleteProjectLoad(p, force) ==
    /\ pc[p] = "dp_load"
    /\ LET r == Load(disk, ProjectDir)
       IN  IF r.err # "ok"
           THEN /\ pc' = [pc EXCEPT ![p] = "done"]
                /\ ret' = [ret EXCEPT ![p] = "failed to load config"]
                /\ UNCHANGED <<cfg, op>>
           ELSE /\ cfg' = [cfg EXCEPT ![p] = r.cfg]
                /\ op' = [op EXCEPT ![p].force = force,
                                    ![p].todo = DOMAIN r.cfg.Containers]
                /\ pc' = [pc EXCEPT ![p] = IF DOMAIN r.cfg.Containers = {}
                                           THEN "dp_remove" ELSE "dp_delete"]
                /\ UNCHANGED ret
    /\ UNCHANGED <<lockFd, waited, disk, tmp, base, lxc, calls>>

\* a loop that goes on after a failed Delete whether force is set or not
DeleteProjectContainerForced(p, name, deleteOk) ==
    /\ pc[p] = "dp_delete"
    /\ name \in op[p].todo
    /\ LET lxcName == GetLXCName(cfg[p], name)
           rest == op[p].todo \ {name}
       IN  /\ lxc' = IF deleteOk /\ LxcExists(lxc, lxcName) THEN LxcDelete(lxc, lxcName) ELSE lxc
           /\ calls' = [calls EXCEPT ![p] = IF LxcExists(lxc, lxcName) THEN Append(@, "Delete") ELSE @]
           /\ op' = [op EXCEPT ![p].todo = rest,
                               ![p].failed = @ \/ (~deleteOk /\ LxcExists(lxc, lxcName))]
           /\ pc' = [pc EXCEPT ![p] = IF rest = {} THEN "dp_remove" ELSE "dp_delete"]
           /\ UNCHANGED ret
    /\ UNCHANGED <<lockFd, waited, disk, tmp, cfg, base>>

\* DeleteProject: one round of the loop over cfg.Containers
DeleteProjectContainer(p, name, deleteOk) ==
    /\ pc[p] = "dp_delete"
    /\ name \in op[p].todo
    /\ LET lxcName == GetLXCName(cfg[p], name)
           rest == op[p].todo \ {name}
       IN  IF ~LxcExists(lxc, lxcName)
           THEN /\ op' = [op EXCEPT ![p].todo = rest]
                /\ pc' = [pc EXCEPT ![p] = IF rest = {} THEN "dp_remove" ELSE "dp_delete"]
                /\ UNCHANGED <<lxc, calls, ret>>
           ELSE IF deleteOk
           THEN /\ lxc' = LxcDelete(lxc, lxcName)
                /\ calls' = [calls EXCEPT ![p] = Append(@, "Delete")]
                /\ op' = [op EXCEPT ![p].todo = rest]
                /\ pc' = [pc EXCEPT ![p] = IF rest = {} THEN "dp_remove" ELSE "dp_delete"]
                /\ UNCHANGED ret
           ELSE IF ~op[p].force
           THEN /\ pc' = [pc EXCEPT ![p] = "done"]
                /\ ret' = [ret EXCEPT ![p] = "failed to delete container"]
                /\ calls' = [calls EXCEPT ![p] = Append(@, "Delete")]
                /\ UNCHANGED <<lxc, op>>
           ELSE /\ op' = [op EXCEPT ![p].todo = rest, ![p].failed = TRUE]
                /\ calls' = [calls EXCEPT ![p] = Append(@, "Delete")]
                /\ pc' = [pc EXCEPT ![p] = IF rest = {} THEN "dp_remove" ELSE "dp_delete"]
                /\ UNCHANGED <<lxc, ret>>
    /\ UNCHANGED <<lockFd, waited, disk, tmp, cfg, base>>

\* DeleteProject: os.Remove(configPath)
DeleteProjectRemove(p, removeOk) ==
    /\ pc[p] = "dp_remove"
    /\ pc' = [pc EXCEPT ![p] = "done"]
    /\ IF removeOk /\ disk.kind # "absent"
       THEN /\ disk' = NoFile
            /\ ret' = [ret EXCEPT ![p] = IF op[p].failed
                                         THEN "some containers failed to delete"
                                         ELSE "ok"]
       ELSE /\ ret' = [ret EXCEPT ![p] = "failed to remove config"]
            /\ UNCHANGED disk
    /\ UNCHANGED <<lockFd, waited, tmp, cfg, base, op, lxc, calls>>

\* Client.Reload: Load without the lock
Reload(p) ==
    /\ pc[p] = "idle"
    /\ LET r == Load(disk, ProjectDir)
       IN  /\ cfg' = [cfg EXCEPT ![p] = r.cfg]
           /\ ret' = [ret EXCEPT ![p] = r.err]
    /\ op' = [op EXCEPT ![p] = [NoOp EXCEPT !.kind = "reload"]]
    /\ pc' = [pc EXCEPT ![p] = "done"]
    /\ UNCHANGED <<lockFd, waited, disk, tmp, base, lxc, calls>>

(***************************************************************************)
(* Initial states and inputs.                                              *)
(***************************************************************************)
lxc_test_dev1 == str_test \o <<"-">> \o str_dev1

\* project test with the container dev1 and the given devices
DocWith(devices) ==
    Marshal(Config(ProjectDir, str_test, <<>>,
                   MapPut(EmptyMap, str_dev1,
                          Container(str_image, <<>>, <<>>, EmptyMap, devices))))

\* a document Load rejects: a device without a type
InvalidDoc == DocWith(MapPut(EmptyMap, str_repo, Device(<<>>, EmptyMap)))

RuntimeWith(privileged, devices) ==
    MapPut(EmptyMap, lxc_test_dev1, LxcContainer(privileged, devices))

InitProcs ==
    /\ lockFd = [p \in Procs |-> "closed"]
    /\ waited = [p \in Procs |-> 0]
    /\ tmp = [p \in Procs |-> NoFile]
    /\ cfg = [p \in Procs |-> NilCfg]
    /\ base = [p \in Procs |-> NoFile]
    /\ pc = [p \in Procs |-> "idle"]
    /\ op = [p \in Procs |-> NoOp]
    /\ ret = [p \in Procs |-> "none"]
    /\ calls = [p \in Procs |-> <<>>]

\* Several clients on one project directory.  The directory starts with a
\* valid document, with none, or with one that a user has left unreadable.
Init ==
    /\ InitProcs
    /\ disk \in {YamlFile(DocWith(EmptyMap), "all"), NoFile, GarbageFile,
                 YamlFile(InvalidDoc, "all")}
    /\ lxc = RuntimeWith(FALSE, EmptyMap)

SyncSources == {<<"a">>}
MoreSyncSources == {<<"a">>, <<"b">>}
SyncDest == <<"/","x">>

SpecMountArgs == { MountArgs(str_dev1, p_srv_repo, p_ws, str_repo, FALSE, FALSE, FALSE) }

\* In Spec a waiter that finds the lock taken is descheduled until the
\* deadline has passed, so its next failed attempt is its last; LockSpec
\* counts every 100 ms attempt.
SpecDelays == {LockTimeoutMs + SleepMs}

SaveStep(p) ==
    \E ok \in BOOLEAN :
        \/ SaveCreate(p, ok)
        \/ SaveWrite(p, ok)
        \/ SaveSync(p, ok)
        \/ SaveClose(p, ok)
        \/ SaveChmod(p, ok)
        \/ SaveRename(p, ok)

\* a step of an operation that goes through LoadWithLock
LockedStep(p, sources) ==
    \/ \E k \in SpecKinds : \E ok \in BOOLEAN : Call(p, k, ok)
    \/ FlockOk(p)
    \/ \E d \in SpecDelays : FlockRetry(p, d)
    \/ FlockTimeout(p)
    \/ LoadLocked(p)
    \/ LoadFailRelease(p)
    \/ \E a \in SpecMountArgs : \E privOk, addOk \in BOOLEAN :
          MountBody(p, a, privOk, addOk)
    \/ \E ok \in BOOLEAN : MountRollback(p, ok)
    \/ \E src \in sources : AddSyncEntryBody(p, str_dev1, SyncEntry(src, SyncDest))
    \/ \E src \in sources : RemoveSyncEntryBody(p, str_dev1, src)
    \/ \E ok \in BOOLEAN : DestroyBody(p, str_dev1, ok)
    \/ SaveStep(p)
    \/ SaveCleanup(p)
    \/ DeferredRelease(p)
    \/ Return(p)
    \/ Crash(p)

\* a step of CreateProject, DeleteProject or Reload
ProjectStep(p) ==
    \/ \E k \in {"create_project", "delete_project"} : Call(p, k, TRUE)
    \/ CreateProjectLoad(p, str_test, <<>>)
    \/ \E force \in BOOLEAN : DeleteProjectLoad(p, force)
    \/ \E n \in {str_dev1} : \E ok \in BOOLEAN : DeleteProjectContainer(p, n, ok)
    \/ \E ok \in BOOLEAN : DeleteProjectRemove(p, ok)
    \/ Reload(p)

Next == \E p \in Procs : LockedStep(p, SyncSources) \/ ProjectStep(p)

Spec == Init /\ [][Next]_vars

\* LockedSpec: the clients call only operations that go through LoadWithLock
LockedNext == \E p \in Procs : LockedStep(p, MoreSyncSources)

LockedSpec == Init /\ [][LockedNext]_vars

(***************************************************************************)
(* LockSpec: clients that take the lock with AcquireLock and give it back  *)
(* with Release, every 100 ms attempt counted.                             *)
(***************************************************************************)
LockInit ==
    /\ InitProcs
    /\ disk = YamlFile(DocWith(EmptyMap), "all")
    /\ lxc = RuntimeWith(FALSE, EmptyMap)

\* the Sleep returns on time, or late
LockDelays == {SleepMs, 3 * SleepMs}

LockNext ==
    \E p \in Procs :
        \/ \E ok \in BOOLEAN : Call(p, "lock", ok)
        \/ FlockOk(p)
        \/ \E d \in LockDelays : FlockRetry(p, d)
        \/ FlockTimeout(p)
        \/ UnlockHeld(p)
        \/ Return(p)

LockSpec == LockInit /\ [][LockNext]_vars

\* a process inside AcquireLock goes on running its loop
FairLockSpec ==
    LockSpec /\ \A p \in Procs :
        WF_vars(FlockOk(p) \/ FlockTimeout(p) \/ \E d \in LockDelays : FlockRetry(p, d))

(***************************************************************************)
(* MountSpec: one client that calls Mount on a container whose devices the *)
(* runtime and the document agree on, with any of the arguments below.     *)
(***************************************************************************)
RepoDevice ==
    Device(str_disk,
           MapPut(MapPut(MapPut(EmptyMap, str_source, p_srv_repo), str_path, p_ws),
                  str_readonly, str_true))

MountInit ==
    /\ InitProcs
    /\ \E devices \in {EmptyMap, MapPut(EmptyMap, str_repo, RepoDevice)} :
         \E privileged \in BOOLEAN :
            /\ disk = YamlFile(DocWith(devices), "all")
            /\ lxc = RuntimeWith(privileged, devices)

MountSources == {p_srv_repo, p_tmp, p_etc, p_home_proj}
MountPaths == {p_ws, p_d}
MountNames == {<<>>, str_repo, str_data}

\* every combination of the usual arguments, and one call for each of the
\* rarer ones: a container the project does not have, a source that does
\* not exist, a symlink to a risky directory, a blocked container path,
\* shift, /home itself and the symlink with the risk accepted
MountSpecArgs ==
    { MountArgs(str_dev1, src, path, name, rw, FALSE, allow) :
        src \in MountSources, path \in MountPaths, name \in MountNames,
        rw \in BOOLEAN, allow \in BOOLEAN }
    \cup { MountArgs(str_list, p_srv_repo, p_ws, <<>>, FALSE, FALSE, FALSE),
           MountArgs(str_dev1, p_nope, p_ws, <<>>, FALSE, FALSE, FALSE),
           MountArgs(str_dev1, p_srv_link, p_d, <<>>, FALSE, FALSE, FALSE),
           MountArgs(str_dev1, p_srv_repo, p_proc, str_data, FALSE, FALSE, FALSE),
           MountArgs(str_dev1, p_srv_data, p_d, <<>>, TRUE, TRUE, FALSE),
           MountArgs(str_dev1, p_home, p_d, <<>>, FALSE, FALSE, TRUE),
           MountArgs(str_dev1, p_srv_link, p_d, <<>>, FALSE, FALSE, TRUE) }

MountNext ==
    \/ \E ok \in BOOLEAN : Call("p1", "mount", ok)
    \/ FlockOk("p1")
    \/ LoadLocked("p1")
    \/ \E a \in MountSpecArgs : \E privOk, addOk \in BOOLEAN :
          MountBody("p1", a, privOk, addOk)
    \/ SaveStep("p1")
    \/ SaveCleanup("p1")
    \/ \E ok \in BOOLEAN : MountRollback("p1", ok)
    \/ DeferredRelease("p1")

MountSpec == MountInit /\ [][MountNext]_vars

(***************************************************************************)
(* One call of Unmount, ListMounts or SyncMounts on a container whose      *)
(* declared and live devices have drifted apart in every way.              *)
(***************************************************************************)
\* every map from a subset of the names to what pool gives them
SubMaps(pool) == {[n \in names |-> pool[n]] : names \in SUBSET DOMAIN pool}

HostDevice ==
    Device(str_disk,
           MapPut(MapPut(MapPut(EmptyMap, str_source, p_host), str_path, p_ws),
                  str_readonly, str_true))

DataDevice ==
    Device(str_disk, MapPut(MapPut(EmptyMap, str_source, p_srv_data), str_path, p_d))

\* a live read-only disk device with shift and no source
ExtraDevice ==
    Device(str_disk,
           MapPut(MapPut(MapPut(EmptyMap, str_path, p_tmp), str_readonly, str_true),
                  str_shift, str_true))

NicDevice == Device(str_nic, EmptyMap)

\* a disk device the runtime has under the name of the network device
EthDisk ==
    Device(str_disk, MapPut(MapPut(EmptyMap, str_source, p_srv_repo), str_path, p_d))

\* a declared disk device that Mount would have refused
EtcDevice ==
    Device(str_disk, MapPut(MapPut(EmptyMap, str_source, p_etc), str_path, p_proc))

DeclaredPool ==
    MapPut(MapPut(MapPut(MapPut(EmptyMap, str_repo, HostDevice), str_data, DataDevice),
                  str_eth0, NicDevice), str_etc, EtcDevice)

LivePool ==
    MapPut(MapPut(MapPut(EmptyMap, str_repo, HostDevice), str_data, DataDevice),
           str_extra, ExtraDevice)

LiveChoices ==
    SubMaps(LivePool)
    \cup { MapPut(m, str_eth0, d) : m \in SubMaps(LivePool), d \in {NicDevice, EthDisk} }

SyncInit ==
    /\ InitProcs
    /\ \E declared \in SubMaps(DeclaredPool) : disk = YamlFile(DocWith(declared), "all")
    /\ \E live \in LiveChoices : lxc = RuntimeWith(FALSE, live)

SyncContainers == {str_dev1, str_list}
UnmountTargets == {str_repo, str_extra, str_eth0, p_ws, p_d, p_nope}
\* which DeviceAdd of a SyncMounts fails: none, the first, the second
FailAts == {0, 1, 2}

SyncNext ==
    \/ \E k \in {"unmount", "syncmounts"} : \E ok \in BOOLEAN : Call("p1", k, ok)
    \/ FlockOk("p1")
    \/ LoadLocked("p1")
    \/ \E c \in SyncContainers : \E listOk \in BOOLEAN : ListMountsCall("p1", c, listOk)
    \/ \E c \in SyncContainers : \E t \in UnmountTargets : \E ok \in BOOLEAN :
          UnmountBody("p1", c, t, ok)
    \/ \E c \in SyncContainers : \E listOk \in BOOLEAN : \E failAt \in FailAts :
          SyncMountsBody("p1", c, listOk, failAt)
    \/ SaveStep("p1")
    \/ SaveCleanup("p1")
    \/ DeferredRelease("p1")

SyncSpec == SyncInit /\ [][SyncNext]_vars

(***************************************************************************)
(* Any number of DeleteSnapshot calls, one after the other, on a container *)
(* with snapshots in the runtime and in the document.                      *)
(***************************************************************************)
SnapshotNames == {str_initial_state, str_initial, str_snap1}

\* project test with the container dev1 and the given snapshots
DocWithSnapshots(snapshots) ==
    Marshal(Config(ProjectDir, str_test, <<>>,
                   MapPut(EmptyMap, str_dev1,
                          Container(str_image, <<>>, <<>>, snapshots, EmptyMap))))

SnapInit ==
    /\ InitProcs
    /\ \E recorded \in SUBSET SnapshotNames :
          disk = YamlFile(DocWithSnapshots([n \in recorded |-> Snapshot(<<>>)]), "all")
    /\ \E taken \in SUBSET SnapshotNames :
          lxc = [RuntimeWith(FALSE, EmptyMap) EXCEPT ![lxc_test_dev1].snapshots = taken]

SnapNext ==
    \/ \E ok \in BOOLEAN : Call("p1", "rmsnap", ok)
    \/ FlockOk("p1")
    \/ LoadLocked("p1")
    \/ \E c \in SyncContainers : \E n \in SnapshotNames : \E ok \in BOOLEAN :
          DeleteSnapshotBody("p1", c, n, ok)
    \/ SaveStep("p1")
    \/ SaveCleanup("p1")
    \/ DeferredRelease("p1")
    \/ Return("p1")

SnapSpec == SnapInit /\ [][SnapNext]_vars

(***************************************************************************)
(* One client reads a project directory found in any state: no document,   *)
(* text that is not YAML, a document cut short, or a whole document, valid *)
(* or not.  It calls Load and asks the Config it gets for its users.       *)
(***************************************************************************)
str_my_proj == <<"m","y","_","p">>
str_a_b     == <<"a"," ","b">>
str_admin   == <<"a","d","m","i","n">>
str_alice   == <<"a","l","i","c","e">>
str_pw1     == <<"p","w","1">>
str_pw2     == <<"p","w","2">>

\* a project name of 60 characters: valid, too long for any container
LongProject == [i \in 1..60 |-> "p"]

LoadProjects == {<<>>, str_test, str_my_proj, str_a_b, LongProject}

LoadDefaultPorts == {<<>>, <<80, 443>>, <<80, 80>>}

LoadDefaultUsers ==
    {NoUser, User(str_admin, <<>>), User(str_admin, str_pw1), User(<<>>, str_pw1)}

LoadContainerNames == {str_dev1, str_list, <<"-","x">>}

LoadContainerPorts == {<<>>, <<8080>>, <<65536>>, <<0>>}

LoadContainerUsers ==
    {NoUser, User(str_alice, <<>>), User(str_alice, str_pw2), User(<<>>, str_pw2)}

\* a disk device whose source has a newline in it
NewlineDevice ==
    Device(str_disk,
           MapPut(MapPut(EmptyMap, str_source, <<"/","a","\n">>), str_path, p_ws))

\* a disk device without a path
PathlessDevice == Device(str_disk, MapPut(EmptyMap, str_source, p_srv_repo))

LoadDevices ==
    {EmptyMap,
     MapPut(MapPut(EmptyMap, str_repo, HostDevice), str_eth0, NicDevice),
     MapPut(EmptyMap, str_repo, Device(<<>>, EmptyMap)),
     MapPut(EmptyMap, str_repo, ExtraDevice),
     MapPut(EmptyMap, str_repo, PathlessDevice),
     MapPut(EmptyMap, str_repo, NewlineDevice)}

\* the sync list and the snapshots of a container: none, or two of each
LoadExtras ==
    {[Sync |-> <<>>, Snapshots |-> EmptyMap],
     [Sync |-> <<SyncEntry(<<"b">>, <<"/","y">>), SyncEntry(<<"a">>, <<"/","x">>)>>,
      Snapshots |-> MapPut(MapPut(EmptyMap, str_initial_state, Snapshot(str_initial)),
                           str_snap1, Snapshot(<<>>))]}

ConfigsOf(dirs, projects, ports, users, names, cports, cusers, devices, extras) ==
    { [Config(dir, project, dp, cs) EXCEPT !.Defaults.User = du] :
        dir \in dirs, project \in projects, dp \in ports, du \in users,
        cs \in {EmptyMap}
               \cup { MapPut(EmptyMap, n,
                             [Container(str_image, cp, e.Sync, e.Snapshots, dv)
                                EXCEPT !.User = cu]) :
                        n \in names, cp \in cports, cu \in cusers,
                        dv \in devices, e \in extras } }

LoadConfigs ==
    ConfigsOf({ProjectDir}, LoadProjects, LoadDefaultPorts, LoadDefaultUsers,
              LoadContainerNames, LoadContainerPorts, LoadContainerUsers,
              LoadDevices, LoadExtras)

LoadFiles ==
    {NoFile, GarbageFile, YamlFile(DocWith(EmptyMap), "some")}
    \cup { YamlFile(Marshal(c), "all") : c \in LoadConfigs }

LoadInit ==
    /\ InitProcs
    /\ disk \in LoadFiles
    /\ lxc = EmptyMap

\* a caller asks the Config that Load returned for the user of a container
GetUserCall(p, name) ==
    /\ pc[p] = "done"
    /\ op[p].kind = "reload"
    /\ ret[p] = "ok"
    /\ op' = [op EXCEPT ![p].kind = "getuser",
                        ![p].args.container = name,
                        ![p].user = GetUser(cfg[p], name)]
    /\ UNCHANGED <<lockFd, waited, disk, tmp, cfg, base, pc, ret, lxc, calls>>

GetUserNames == {str_dev1, str_data}

LoadNext ==
    \/ Reload("p1")
    \/ \E name \in GetUserNames : GetUserCall("p1", name)
    \/ Return("p1")

LoadSpec == LoadInit /\ [][LoadNext]_vars

(***************************************************************************)
(* One client builds a Config in memory, saves it and loads the directory  *)
(* again, as the round-trip tests of config_test.go do.                    *)
(***************************************************************************)
RoundTripConfigs ==
    ConfigsOf({ProjectDir, <<>>}, {<<>>, str_test}, {<<>>, <<80, 443>>},
              LoadDefaultUsers, {str_dev1, str_list}, {<<>>, <<8080>>},
              LoadContainerUsers,
              {EmptyMap,
               MapPut(MapPut(EmptyMap, str_repo, HostDevice), str_eth0, NicDevice),
               MapPut(EmptyMap, str_repo, Device(<<>>, EmptyMap))},
              LoadExtras)

RoundTripInit ==
    /\ InitProcs
    /\ disk = NoFile
    /\ lxc = EmptyMap

\* c.Save() is called on a Config built in memory
SaveCall(p, c) ==
    /\ pc[p] = "idle"
    /\ cfg' = [cfg EXCEPT ![p] = c]
    /\ op' = [op EXCEPT ![p] = [NoOp EXCEPT !.kind = "save", !.saved = c]]
    /\ pc' = [pc EXCEPT ![p] = "save_create"]
    /\ UNCHANGED <<lockFd, waited, disk, tmp, base, ret, lxc, calls>>

\* Load(c.Dir) after a Save that returned nil
LoadAfterSave(p) ==
    /\ pc[p] = "done"
    /\ op[p].kind = "save"
    /\ ret[p] = "ok"
    /\ LET r == Load(disk, op[p].saved.Dir)
       IN  /\ cfg' = [cfg EXCEPT ![p] = r.cfg]
           /\ ret' = [ret EXCEPT ![p] = r.err]
    /\ op' = [op EXCEPT ![p].kind = "saveload"]
    /\ UNCHANGED <<lockFd, waited, disk, tmp, base, pc, lxc, calls>>

RoundTripNext ==
    \/ \E c \in RoundTripConfigs : SaveCall("p1", c)
    \/ SaveStep("p1")
    \/ SaveCleanup("p1")
    \/ LoadAfterSave("p1")

RoundTripSpec == RoundTripInit /\ [][RoundTripNext]_vars

(***************************************************************************)
(* One call of CreateContainer or Clone on a project that has the          *)
(* container dev1, under each kind of project name.                        *)
(***************************************************************************)
str_dev2  == <<"d","e","v","2">>
str_dev22 == <<"d","e","v","2","2">>

\* a project name of 58 characters: with dev1 or dev2 the runtime name has
\* 63 characters
Project58 == [i \in 1..58 |-> "p"]

CreateProjects == {<<>>, str_test, str_my_proj, Project58}

CreateNames ==
    {str_dev1, str_dev2, str_dev22, <<" ","d","e","v","2">>, str_list,
     <<"-","x">>, <<>>}

CloneSources == {str_dev1, str_data}

CloneSnapshots == {<<>>, str_snap1, str_initial}

CreateInit ==
    /\ InitProcs
    /\ \E project \in CreateProjects : \E others \in SUBSET {str_dev1, str_dev2} :
          LET c == Config(ProjectDir, project, <<>>,
                          MapPut(EmptyMap, str_dev1,
                                 Container(str_image, <<>>, <<>>, EmptyMap, EmptyMap)))
          IN  /\ disk = YamlFile(Marshal(c), "all")
              /\ lxc = [n \in {GetLXCName(c, o) : o \in others} |->
                          [LxcContainer(FALSE, EmptyMap) EXCEPT !.snapshots = {str_snap1}]]

CreateNext ==
    \/ \E k \in {"create", "clone"} : \E ok \in BOOLEAN : Call("p1", k, ok)
    \/ FlockOk("p1")
    \/ LoadLocked("p1")
    \/ \E name \in CreateNames :
       \E failAt \in {"none", "launch"} \cup DOMAIN CreateFailures :
          CreateContainerBody("p1", name, failAt)
    \/ \E source \in CloneSources : \E name \in CreateNames :
       \E snap \in CloneSnapshots : \E ok \in BOOLEAN :
          CloneBody("p1", source, name, snap, ok)
    \/ SaveStep("p1")
    \/ SaveCleanup("p1")
    \/ \E ok \in BOOLEAN : InitialSnapshot("p1", ok)
    \/ DeferredRelease("p1")

CreateSpec == CreateInit /\ [][CreateNext]_vars

(***************************************************************************)
(* One client edits the sync list of dev1, call after call.                *)
(***************************************************************************)
SyncListSources == {<<"a">>, <<"b">>, <<"c">>}

SyncListDests == {<<"/","x">>, <<"/","y">>}

SyncListEntries == {SyncEntry(src, dst) : src \in SyncListSources, dst \in SyncListDests}

SyncListContainers == {str_dev1, str_data}

\* the lists the document starts with: their sources are distinct
SyncListStarts ==
    {<<>>,
     <<SyncEntry(<<"a">>, <<"/","x">>)>>,
     <<SyncEntry(<<"b">>, <<"/","y">>), SyncEntry(<<"a">>, <<"/","x">>)>>,
     <<SyncEntry(<<"c">>, <<"/","x">>), SyncEntry(<<"a">>, <<"/","x">>),
       SyncEntry(<<"b">>, <<"/","x">>)>>}

SyncListInit ==
    /\ InitProcs
    /\ \E sync \in SyncListStarts :
          disk = YamlFile(Marshal(Config(ProjectDir, str_test, <<>>,
                              MapPut(EmptyMap, str_dev1,
                                     Container(str_image, <<>>, sync, EmptyMap,
                                               EmptyMap)))), "all")
    /\ lxc = EmptyMap

SyncListNext ==
    \/ \E k \in {"addsync", "rmsync"} : \E ok \in BOOLEAN : Call("p1", k, ok)
    \/ FlockOk("p1")
    \/ LoadLocked("p1")
    \/ \E c \in SyncListContainers : \E e \in SyncListEntries :
          AddSyncEntryBody("p1", c, e)
    \/ \E c \in SyncListContainers : \E src \in SyncListSources :
          RemoveSyncEntryBody("p1", c, src)
    \/ SaveStep("p1")
    \/ SaveCleanup("p1")
    \/ DeferredRelease("p1")
    \/ Return("p1")

SyncListSpec == SyncListInit /\ [][SyncListNext]_vars

(***************************************************************************)
(* One Mount or SyncMounts call on a container that is privileged or not,  *)
(* with a read-only and a read-write device declared, live, both or        *)
(* neither.                                                                *)
(***************************************************************************)
PrivilegedPool == MapPut(MapPut(EmptyMap, str_repo, HostDevice), str_data, DataDevice)

PrivilegedArgs ==
    { MountArgs(str_dev1, src, p_opt, <<>>, rw, FALSE, TRUE) :
        src \in {p_srv_repo, p_home_proj}, rw \in BOOLEAN }

PrivilegedInit ==
    /\ InitProcs
    /\ \E declared \in SubMaps(PrivilegedPool) : disk = YamlFile(DocWith(declared), "all")
    /\ \E live \in SubMaps(PrivilegedPool) : \E privileged \in BOOLEAN :
          lxc = RuntimeWith(privileged, live)

PrivilegedNext ==
    \/ \E k \in {"mount", "syncmounts"} : \E ok \in BOOLEAN : Call("p1", k, ok)
    \/ FlockOk("p1")
    \/ LoadLocked("p1")
    \/ \E a \in PrivilegedArgs : \E privOk, addOk \in BOOLEAN :
          MountBody("p1", a, privOk, addOk)
    \/ \E listOk \in BOOLEAN : \E failAt \in {0, 1} :
          SyncMountsBody("p1", str_dev1, listOk, failAt)
    \/ SaveStep("p1")
    \/ SaveCleanup("p1")
    \/ \E ok \in BOOLEAN : MountRollback("p1", ok)
    \/ DeferredRelease("p1")

PrivilegedSpec == PrivilegedInit /\ [][PrivilegedNext]_vars

(***************************************************************************)
(* Client.SetDefaultPorts, any number of times, each followed or not by a  *)
(* Reload of the document it has saved.                                    *)
(***************************************************************************)
\* Client.SetDefaultPorts between LoadWithLock and Save
SetDefaultPortsBody(p, ports) ==
    /\ pc[p] = "body"
    /\ op[p].kind = "setports"
    /\ cfg' = [cfg EXCEPT ![p].Defaults.Ports = ports]
    /\ op' = [op EXCEPT ![p].ports = ports]
    /\ pc' = [pc EXCEPT ![p] = "save_create"]
    /\ UNCHANGED <<lockFd, waited, disk, tmp, base, ret, lxc, calls>>

DefaultPortLists == UNION { [1..n -> {0, 80, 443}] : n \in 0..2 }

PortsInit ==
    /\ InitProcs
    /\ disk = YamlFile(DocWith(EmptyMap), "all")
    /\ lxc = RuntimeWith(FALSE, EmptyMap)

PortsNext ==
    \/ \E ok \in BOOLEAN : Call("p1", "setports", ok)
    \/ FlockOk("p1")
    \/ LoadLocked("p1")
    \/ LoadFailRelease("p1")
    \/ \E ports \in DefaultPortLists : SetDefaultPortsBody("p1", ports)
    \/ SaveStep("p1")
    \/ SaveCleanup("p1")
    \/ DeferredRelease("p1")
    \/ Reload("p1")
    \/ Return("p1")

PortsSpec == PortsInit /\ [][PortsNext]_vars

(***************************************************************************)
(* One DeleteProject call on a project with up to two containers, each of  *)
(* them in the runtime or not.                                             *)
(***************************************************************************)
DeleteNames == {str_dev1, str_dev2}

\* project test with the given containers and nothing else
DocWithContainers(names) ==
    Marshal(Config(ProjectDir, str_test, <<>>,
                   [n \in names |-> Container(str_image, <<>>, <<>>, EmptyMap, EmptyMap)]))

DeleteInit ==
    /\ InitProcs
    /\ \E declared \in SUBSET DeleteNames :
          disk \in {NoFile, YamlFile(DocWithContainers(declared), "all")}
    /\ \E running \in SUBSET DeleteNames :
          lxc = [n \in { str_test \o <<"-">> \o m : m \in running } |->
                    LxcContainer(FALSE, EmptyMap)]

DeleteNext ==
    \/ Call("p1", "delete_project", TRUE)
    \/ \E force \in BOOLEAN : DeleteProjectLoad("p1", force)
    \/ \E n \in DeleteNames : \E ok \in BOOLEAN : DeleteProjectContainer("p1", n, ok)
    \/ \E ok \in BOOLEAN : DeleteProjectRemove("p1", ok)
    \/ Return("p1")

DeleteSpec == DeleteInit /\ [][DeleteNext]_vars

(***************************************************************************)
(* Any number of Mount and Unmount calls, one after the other, on one      *)
(* container, with container paths that differ only by a trailing slash.   *)
(***************************************************************************)
p_ws_slash == p_ws \o <<"/">>

RemountArgs ==
    { MountArgs(str_dev1, src, path, name, FALSE, FALSE, FALSE) :
        src \in {p_srv_repo, p_srv_data},
        path \in {p_ws, p_ws_slash, p_d},
        name \in {str_repo, str_data} }

RemountTargets == {str_repo, str_data, p_ws, p_ws_slash}

RemountInit ==
    /\ InitProcs
    /\ \E devices \in {EmptyMap, MapPut(EmptyMap, str_repo, RepoDevice)} :
          /\ disk = YamlFile(DocWith(devices), "all")
          /\ lxc = RuntimeWith(FALSE, devices)

RemountNext ==
    \/ \E k \in {"mount", "unmount"} : \E ok \in BOOLEAN : Call("p1", k, ok)
    \/ FlockOk("p1")
    \/ LoadLocked("p1")
    \/ \E a \in RemountArgs : \E addOk \in BOOLEAN : MountBody("p1", a, TRUE, addOk)
    \/ \E t \in RemountTargets : \E ok \in BOOLEAN : UnmountBody("p1", str_dev1, t, ok)
    \/ SaveStep("p1")
    \/ SaveCleanup("p1")
    \/ \E ok \in BOOLEAN : MountRollback("p1", ok)
    \/ DeferredRelease("p1")
    \/ Return("p1")

RemountSpec == RemountInit /\ [][RemountNext]_vars

(***************************************************************************)
(* The Validator applied to names and paths of every shape.                *)
(***************************************************************************)
\* a name of n letters
LongName(n) == [i \in 1..n |-> "a"]

NameAlphabet == {"a", "A", "1", "-", "_", " "}

\* every string of up to three characters of the alphabet
ShortNames ==
    {<<>>}
    \cup { <<a>> : a \in NameAlphabet }
    \cup { <<a, b>> : a \in NameAlphabet, b \in NameAlphabet }
    \cup { <<a, b, c>> : a \in NameAlphabet, b \in NameAlphabet, c \in NameAlphabet }

ValidatorNames ==
    ShortNames \cup reservedNames
    \cup { str_dev1, <<"L","i","s","t">>, <<"l","i","s","t","s">>,
           <<" ","d","e","v","1">>, <<"d","e","v","1","\t">>, <<"d","e","v",".","1">>,
           LongName(50), LongName(51), LongName(63), LongName(64) }

PathAlphabet == {"/", ".", "a"}

\* every path of a slash and up to four characters of the alphabet
ShortPaths ==
    { <<"/">> \o t : t \in UNION { [1..n -> PathAlphabet] : n \in 0..4 } }

p_home_etc_passwd ==
    <<"/","h","o","m","e","/",".",".","/","e","t","c","/","p","a","s","s","w","d">>
p_home_proc == <<"/","h","o","m","e","/",".",".","/","p","r","o","c">>

ValidatorPaths ==
    ShortPaths
    \cup { <<>>, <<"a">>, <<"a","/","b">>, p_ws, p_proc, <<"/","s","y","s">>,
           <<"/","d","e","v">>, <<"/","d","e","v","/","s","h","m">>,
           <<"/","p","r","o","c","/">>, p_home_etc_passwd, p_home_proc,
           <<"/","a","\n">>, <<"/","a","\t">>, <<"/","a","\r">>, <<"/","NUL">>,
           <<"/","a"," ","b">>, <<"/","v","1",".",".","2">>,
           <<"/">> \o LongName(4095), <<"/">> \o LongName(4096) }

ValidatorSources ==
    { <<>>, p_srv_repo, p_srv_data, p_srv_link, p_srv_etc, p_srv_keys, p_srv_gone,
      p_srv_f, p_nope, p_root, p_slash_root, p_etc, p_home, p_var, p_tmp, p_opt,
      p_home_ssh, p_home_proj, p_srv_repo \o <<"/">>,
      p_srv_repo \o <<"/",".",".","/",".",".","/","e","t","c">>,
      p_home_proj \o <<"/",".",".","/",".","s","s","h">>,
      p_home \o <<"/">> }

ValidatorInit ==
    /\ InitProcs
    /\ disk = NoFile
    /\ lxc = EmptyMap

\* a call of one of the Validator's functions: the argument is kept in
\* op, the error it returns in ret
ValidateContainerNameCall(p, name) ==
    /\ pc[p] = "idle"
    /\ op' = [op EXCEPT ![p] = [NoOp EXCEPT !.kind = "ValidateContainerName",
                                            !.args.name = name]]
    /\ ret' = [ret EXCEPT ![p] = ValidateContainerName(name)]
    /\ pc' = [pc EXCEPT ![p] = "done"]
    /\ UNCHANGED <<lockFd, waited, disk, tmp, cfg, base, lxc, calls>>

ValidateMountNameCall(p, name) ==
    /\ pc[p] = "idle"
    /\ op' = [op EXCEPT ![p] = [NoOp EXCEPT !.kind = "ValidateMountName",
                                            !.args.name = name]]
    /\ ret' = [ret EXCEPT ![p] = ValidateMountName(name)]
    /\ pc' = [pc EXCEPT ![p] = "done"]
    /\ UNCHANGED <<lockFd, waited, disk, tmp, cfg, base, lxc, calls>>

ValidateContainerPathCall(p, path) ==
    /\ pc[p] = "idle"
    /\ op' = [op EXCEPT ![p] = [NoOp EXCEPT !.kind = "ValidateContainerPath",
                                            !.args.path = path]]
    /\ ret' = [ret EXCEPT ![p] = ValidateContainerPath(path)]
    /\ pc' = [pc EXCEPT ![p] = "done"]
    /\ UNCHANGED <<lockFd, waited, disk, tmp, cfg, base, lxc, calls>>

\* the path and the warning ValidateSourcePath returns are kept as well
ValidateSourcePathCall(p, source) ==
    /\ pc[p] = "idle"
    /\ op' = [op EXCEPT ![p] = [NoOp EXCEPT !.kind = "ValidateSourcePath",
                                            !.args.source = source,
                                            !.resolved = ValidateSourcePath(source)]]
    /\ ret' = [ret EXCEPT ![p] = ValidateSourcePath(source).err]
    /\ pc' = [pc EXCEPT ![p] = "done"]
    /\ UNCHANGED <<lockFd, waited, disk, tmp, cfg, base, lxc, calls>>

PortValues == {-1, 0, 1, 80, 65535, 65536}

\* every list of up to three of the port values
ValidatorPortLists == UNION { [1..n -> PortValues] : n \in 0..3 }

ValidatePortsCall(p, ports) ==
    /\ pc[p] = "idle"
    /\ op' = [op EXCEPT ![p] = [NoOp EXCEPT !.kind = "ValidatePorts",
                                            !.ports = ports]]
    /\ ret' = [ret EXCEPT ![p] = ValidatePorts(ports)]
    /\ pc' = [pc EXCEPT ![p] = "done"]
    /\ UNCHANGED <<lockFd, waited, disk, tmp, cfg, base, lxc, calls>>

BaseAlphabet == {"a", "Z", "1", "-", "_", "."}

\* the paths GenerateMountName is given: every base name of up to three
\* characters of the alphabet under /h, and names around the length limit
GeneratorSources ==
    { <<"/","h","/">> \o b : b \in UNION { [1..n -> BaseAlphabet] : n \in 0..3 } }
    \cup { <<"/">>, p_srv_repo, p_home_proj, p_srv_repo \o <<"/">>,
           <<"/","h","/">> \o LongName(100),
           <<"/","h","/">> \o LongName(50), <<"/","h","/">> \o LongName(51),
           <<"/","h","/">> \o LongName(49) \o <<"_","b">>,
           <<"/","h","/">> \o LongName(48) \o <<"_","_","b">>,
           <<"/","h","/","1">> \o LongName(100),
           <<"/","h","/","1">> \o LongName(42) \o <<".","b">>,
           <<"/","h","/","m","y","@","p","r","o","j","e","c","t","#","1">> }

\* the name GenerateMountName returns is kept in op
GenerateMountNameCall(p, source) ==
    /\ pc[p] = "idle"
    /\ op' = [op EXCEPT ![p] = [NoOp EXCEPT !.kind = "GenerateMountName",
                                            !.args.source = source,
                                            !.generated = GenerateMountName(source)]]
    /\ ret' = [ret EXCEPT ![p] = "ok"]
    /\ pc' = [pc EXCEPT ![p] = "done"]
    /\ UNCHANGED <<lockFd, waited, disk, tmp, cfg, base, lxc, calls>>

ValidatorNext ==
    \/ \E ports \in ValidatorPortLists : ValidatePortsCall("p1", ports)
    \/ \E source \in GeneratorSources : GenerateMountNameCall("p1", source)
    \/ \E name \in ValidatorNames : ValidateContainerNameCall("p1", name)
    \/ \E name \in ValidatorNames : ValidateMountNameCall("p1", name)
    \/ \E path \in ValidatorPaths : ValidateContainerPathCall("p1", path)
    \/ \E source \in ValidatorSources : ValidateSourcePathCall("p1", source)
    \/ Return("p1")

ValidatorSpec == ValidatorInit /\ [][ValidatorNext]_vars

(***************************************************************************)
(* Properties of the config lock and of Save.                              *)
(***************************************************************************)
SavePcs ==
    {"save_create", "save_write", "save_sync", "save_close", "save_chmod",
     "save_rename", "save_cleanup"}

Quiet(p) == pc[p] \in {"idle", "done"}

LockTimeoutError == "timeout waiting for config lock"

\* C1: at any time at most one process holds the config lock of a project
\* directory; while one holds it, a step of another process inside
\* AcquireLock leaves it retrying or makes it fail with the timeout error
\* (or the process is killed), never makes it a holder.
C1_OneHolder ==
    /\ [](Cardinality({p \in Procs : HoldsConfigLock(p)}) <= 1)
    /\ [](\A p \in Procs : HoldsConfigLock(p) => lockFd[p] = "locked")
    /\ [][\A p \in Procs :
            (pc[p] = "flock" /\ \E q \in Procs \ {p} : HoldsConfigLock(q))
            => \/ pc'[p] = "flock"
               \/ pc'[p] = "done" /\ ret'[p] = LockTimeoutError
               \/ pc'[p] = "idle"]_vars

\* one process holds the lock and another has found it taken
C1_Witness ==
    \E p, q \in Procs :
        /\ p # q
        /\ HoldsConfigLock(p)
        /\ pc[q] = "flock"
        /\ waited[q] > 0

\* C2: every operation that writes or removes the document holds the config
\* lock from before its Load until after its last write: a process between
\* the Load and the last write of such an operation has the lock.
C2_WritersHoldLock ==
    \A p \in Procs :
        pc[p] \in {"load", "body", "rollback", "cp_load", "dp_load", "dp_delete",
                   "dp_remove"} \cup SavePcs
        => lockFd[p] = "locked"

\* the devices and sync entries a document file declares on a container
DocContainer(file, container) ==
    LET r == Load(file, ProjectDir)
    IN  IF r.err = "ok" /\ HasContainer(r.cfg, container)
        THEN r.cfg.Containers[container]
        ELSE Container(<<>>, <<>>, <<>>, EmptyMap, EmptyMap)

SyncSourcesOf(c) == { c.Sync[i].Source : i \in DOMAIN c.Sync }

\* C3: between its Load and its write, a lock-protected operation finds on
\* disk the document it loaded, and its write keeps everything the document
\* on disk holds apart from its own change: Mount keeps the sync entries and
\* every device, AddSyncEntry keeps the devices and every sync entry, and so
\* on.  Hence when two concurrent operations both succeed the final document
\* holds both changes.
C3_NoLostUpdate ==
    /\ [](\A p \in Procs :
            (pc[p] \in {"body", "rollback"} \cup SavePcs /\ UsesLoadWithLock(op[p].kind))
            => disk = base[p])
    /\ [][\A p \in Procs :
            (pc[p] = "save_rename" /\ disk' # disk)
            => LET old == DocContainer(disk, str_dev1)
                   new == DocContainer(disk', str_dev1)
               IN  /\ Load(disk', ProjectDir).err = "ok"
                   /\ op[p].kind = "mount"
                      => /\ new.Sync = old.Sync
                         /\ \A n \in DOMAIN old.Devices :
                               n \in DOMAIN new.Devices /\ new.Devices[n] = old.Devices[n]
                         /\ op[p].dev \in DOMAIN new.Devices
                   /\ op[p].kind \in {"addsync", "rmsync", "destroy"}
                      => new.Devices = old.Devices
                   /\ op[p].kind = "addsync"
                      => SyncSourcesOf(old) \subseteq SyncSourcesOf(new)
                   /\ op[p].kind = "destroy" => new.Sync = old.Sync]_vars

\* a Mount and an AddSyncEntry have both succeeded, the second after it had
\* to wait for the lock, and the document holds the device and the entry
C3_Witness ==
    \E p, q \in Procs :
        /\ pc[p] = "done" /\ ret[p] = "ok" /\ op[p].kind = "mount"
        /\ pc[q] = "done" /\ ret[q] = "ok" /\ op[q].kind = "addsync"
        /\ waited[q] > 0
        /\ str_repo \in DOMAIN DocContainer(disk, str_dev1).Devices
        /\ SyncSourcesOf(DocContainer(disk, str_dev1)) # {}

\* C4: containers.yaml is never a partly written file; it changes only when
\* the Rename of Save puts a completely written temporary file holding the
\* saving Config in its place (or when DeleteProject removes it); a process
\* killed inside Save leaves it as it was.
C4_AtomicSave ==
    /\ [](disk.kind = "yaml" => disk.written = "all")
    /\ [][disk' # disk
          => \/ \E p \in Procs :
                  /\ pc[p] = "save_rename"
                  /\ tmp[p] = YamlFile(Marshal(cfg[p]), "all")
                  /\ disk' = tmp[p]
             \/ \E p \in Procs : pc[p] = "dp_remove" /\ disk' = NoFile]_vars
    /\ [][\A p \in Procs :
            (pc[p] \in SavePcs /\ pc'[p] = "idle") => disk' = disk]_vars

\* the new document is written out in full and the old one is still in place
C4_Witness ==
    \E p \in Procs :
        /\ pc[p] = "save_rename"
        /\ tmp[p].written = "all"
        /\ disk.kind = "yaml"
        /\ disk # tmp[p]

\* C5: a process that is not inside an operation holds no lock, whatever way
\* the operation returned; when every operation has completed the lock is
\* free, and an AcquireLock then succeeds at its first attempt.
C5_ReleasedOnReturn ==
    /\ [](\A p \in Procs : Quiet(p) => lockFd[p] = "closed")
    /\ []((\A p \in Procs : Quiet(p)) => \A p \in Procs : FlockGranted(p))
    /\ [][\A p \in Procs :
            (pc[p] = "flock" /\ waited[p] = 0 /\ \A q \in Procs \ {p} : Quiet(q))
            => /\ waited'[p] = 0
               /\ pc'[p] \in {"flock", "load", "held", "idle"}]_vars

\* an operation has failed after it took the lock and loaded the document,
\* and the lock is free again
C5_Witness ==
    \E p \in Procs :
        /\ pc[p] = "done"
        /\ UsesLoadWithLock(op[p].kind)
        /\ ret[p] = "failed to save config"
        /\ \A q \in Procs : FlockGranted(q)

LoadErrors == {"ErrNoProject", "invalid YAML", "invalid configuration"}

\* C6: when the Load of LoadWithLock fails (no document, a parse error, a
\* validation error) LoadWithLock releases the lock and returns the error
\* with no Config and no lock.
C6_LoadFailureReleases ==
    /\ [](\A p \in Procs :
            (UsesLoadWithLock(op[p].kind) /\ ret[p] \in LoadErrors)
            => /\ cfg[p] = NilCfg
               /\ pc[p] \in {"lwl_release", "done"}
               /\ pc[p] = "done" => (lockFd[p] = "closed" /\ ~HoldsConfigLock(p)))
    /\ [][\A p \in Procs :
            (pc[p] = "load" /\ Load(disk, ProjectDir).err # "ok" /\ pc'[p] # "load")
            => \/ pc'[p] = "idle"
               \/ pc'[p] = "lwl_release" /\ ret'[p] = Load(disk, ProjectDir).err
                                         /\ ret'[p] \in LoadErrors]_vars
    /\ [][\A p \in Procs :
            (pc[p] = "lwl_release" /\ pc'[p] # "lwl_release")
            => pc'[p] \in {"done", "idle"} /\ lockFd'[p] = "closed"]_vars

\* LoadWithLock has returned a validation error and the lock is free
C6_Witness ==
    \E p \in Procs :
        /\ pc[p] = "done"
        /\ UsesLoadWithLock(op[p].kind)
        /\ ret[p] = "invalid configuration"
        /\ lockFd[p] = "closed"
        /\ \A q \in Procs : FlockGranted(q)

\* C7: AcquireLock makes at least one attempt and sleeps a fixed interval
\* between attempts; it never waits much beyond the timeout; when it gives
\* up it returns the timeout error holding neither the lock nor the open
\* file; an attempt made while nobody holds the lock succeeds, so a single
\* waiter whose holder releases in time gets the lock; and every call of
\* AcquireLock comes to an end.
C7_BoundedWait ==
    /\ [](\A p \in Procs : waited[p] <= LockTimeoutMs + 3 * SleepMs)
    /\ [](\A p \in Procs :
            (pc[p] = "done" /\ ret[p] = LockTimeoutError)
            => /\ lockFd[p] = "closed"
               /\ waited[p] > LockTimeoutMs)
    /\ [][\A p \in Procs :
            (pc[p] = "flock" /\ waited'[p] # waited[p])
            => /\ waited'[p] - waited[p] >= SleepMs
               /\ waited[p] <= LockTimeoutMs
               /\ pc'[p] = "flock"
               /\ ~FlockGranted(p)]_vars
    /\ [][\A p \in Procs :
            (pc[p] = "flock" /\ FlockGranted(p) /\ pc'[p] # "flock")
            => pc'[p] = "held" /\ lockFd'[p] = "locked"]_vars
    /\ \A p \in Procs : (pc[p] = "flock") ~> (pc[p] \in {"held", "done"})

\* a waiter has given up after the timeout while the other process still
\* holds the lock
C7_Witness ==
    \E p, q \in Procs :
        /\ pc[p] = "done"
        /\ ret[p] = LockTimeoutError
        /\ lockFd[p] = "closed"
        /\ pc[q] = "held"

(***************************************************************************)
(* Properties of Mount.                                                    *)
(***************************************************************************)
\* Mount has been called by p with the arguments op[p].args
MountCalled(p) == op[p].kind = "mount" /\ op[p].args # NoArgs

\* the Config that p's LoadWithLock returned
Loaded(p) == Load(base[p], ProjectDir).cfg

SaveError == "failed to save config"

\* C8 as stated: if the runtime and the document agreed on the container's
\* devices when Mount was called, they agree when Mount has returned,
\* whatever it returned.
C8_RuntimeMatchesDocument ==
    \A p \in Procs :
        (pc[p] = "done" /\ MountCalled(p) /\ op[p].agreed)
        => DevicesAgree(disk, lxc, cfg[p], op[p].args.container)

\* C8: if the runtime and the document agreed on the container's devices
\* when Mount was called, then after a successful Mount the device is in
\* both; after a Mount that failed before Save both are as they were; and
\* after a failed Save Mount has issued DeviceAdd and then DeviceRemove and
\* the device is in neither, unless that DeviceRemove failed too: then the
\* device stays in the runtime alone and Mount still returns the Save error.
C8_RollbackBestEffort ==
    \A p \in Procs :
        (pc[p] = "done" /\ MountCalled(p) /\ op[p].agreed)
        => LET c == op[p].args.container
               inRuntime == op[p].dev \in RuntimeDevices(lxc, GetLXCName(cfg[p], c))
               inDocument == op[p].dev \in DeclaredDevices(disk, c)
           IN  /\ ret[p] = "ok" => (inRuntime /\ inDocument)
               /\ ~op[p].failed => DevicesAgree(disk, lxc, cfg[p], c)
               /\ ret[p] # "ok" => disk = base[p]
               /\ ret[p] = SaveError
                  => /\ calls[p] = <<"DeviceAdd", "DeviceRemove">>
                     /\ ~inDocument
                     /\ inRuntime <=> op[p].failed
               /\ op[p].failed => ret[p] = SaveError

\* Save has failed after DeviceAdd, the rollback has removed the device, and
\* the device is in neither the runtime nor the document
C8_Witness ==
    \E p \in Procs :
        /\ pc[p] = "done" /\ MountCalled(p) /\ op[p].agreed
        /\ ret[p] = SaveError
        /\ ~op[p].failed
        /\ calls[p] = <<"DeviceAdd", "DeviceRemove">>
        /\ op[p].dev \notin RuntimeDevices(lxc, lxc_test_dev1)
        /\ op[p].dev \notin DeclaredDevices(disk, str_dev1)

\* Mount has returned an error without a call to the runtime and without a
\* change to the Config, and nothing was saved
MountRefused(p) ==
    /\ pc[p] \in {"release", "done"}
    /\ ret[p] \notin {"ok", "none"}
    /\ calls[p] = <<>>
    /\ cfg[p] = Loaded(p)
    /\ tmp[p] = NoFile
    /\ disk = base[p]

\* the container is there and the source, the path and the name are valid
MountArgsValid(p) ==
    LET a == op[p].args
        v == ValidateSourcePath(a.source)
    IN  /\ HasContainer(Loaded(p), a.container)
        /\ LxcExists(lxc, GetLXCName(Loaded(p), a.container))
        /\ v.err = "ok"
        /\ (v.warning = "" \/ a.AllowRiskyPath)
        /\ ValidateContainerPath(a.path) = "ok"
        /\ ValidateMountName(MountDeviceName(a)) = "ok"

\* the device name of the call is declared on the container
NameTaken(p) ==
    /\ HasContainer(Loaded(p), op[p].args.container)
    /\ MountDeviceName(op[p].args) \in DOMAIN GetDevices(Loaded(p), op[p].args.container)

\* a declared device of the container has the container path of the call
PathTaken(p) ==
    /\ HasContainer(Loaded(p), op[p].args.container)
    /\ \E n \in DOMAIN GetDevices(Loaded(p), op[p].args.container) :
          LET d == GetDevices(Loaded(p), op[p].args.container)[n]
          IN  str_path \in DOMAIN d.Config /\ d.Config[str_path] = op[p].args.path

\* C9: a Mount whose device name is already declared on the container, or
\* whose container path is the path of a declared device, fails: it issues
\* no DeviceAdd, changes nothing and saves nothing.  When the container
\* exists and the arguments are valid, so that Mount gets as far as these
\* checks, the error is "already exists" for the name and, the name being
\* free, "already mounted" for the path.
C9_ConflictsRefused ==
    \A p \in Procs :
        (MountCalled(p) /\ (NameTaken(p) \/ PathTaken(p)))
        => /\ MountRefused(p)
           /\ (MountArgsValid(p) /\ NameTaken(p)) => ret[p] = "already exists"
           /\ (MountArgsValid(p) /\ ~NameTaken(p)) => ret[p] = "already mounted"

\* Mount with a free name to the path of a declared device was refused
C9_Witness ==
    \E p \in Procs :
        /\ pc[p] = "done" /\ MountCalled(p)
        /\ PathTaken(p) /\ ~NameTaken(p)
        /\ ret[p] = "already mounted"
        /\ calls[p] = <<>>

\* C10: the source has a risk warning exactly when it resolves to /home,
\* /var, /tmp or /opt; a Mount of such a source without AllowRiskyPath
\* fails, issues no DeviceAdd and leaves the document as it is, with the
\* risky-path error when the container exists; with AllowRiskyPath the
\* risky-path error is never returned.
C10_RiskyNeedsApproval ==
    \A p \in Procs :
        MountCalled(p)
        => LET a == op[p].args
               v == ValidateSourcePath(a.source)
               risky == v.err = "ok" /\ v.warning # ""
           IN  /\ risky <=> (v.err = "ok" /\ v.path \in {p_home, p_var, p_tmp, p_opt})
               /\ (risky /\ ~a.AllowRiskyPath)
                  => /\ MountRefused(p)
                     /\ (HasContainer(Loaded(p), a.container)
                         /\ LxcExists(lxc, GetLXCName(Loaded(p), a.container)))
                        => ret[p] = "risky path"
               /\ a.AllowRiskyPath => ret[p] # "risky path"

\* Mount of a symlink to /tmp without AllowRiskyPath was refused
C10_Witness ==
    \E p \in Procs :
        /\ pc[p] = "done" /\ MountCalled(p)
        /\ op[p].args.source = p_srv_link
        /\ ~op[p].args.AllowRiskyPath
        /\ ret[p] = "risky path"
        /\ calls[p] = <<>>
        /\ disk = base[p]

\* the path is /home or lies below it
UnderHome(path) == path = p_home \/ HasPrefix(path, p_home \o <<"/">>)

PrivilegeErrors ==
    {"read-write mounts are disabled", "mounting /home is blocked",
     "failed to check container privilege status"}

\* the container of the call is a privileged runtime container
TargetPrivileged(p) ==
    /\ HasContainer(Loaded(p), op[p].args.container)
    /\ LxcExists(lxc, GetLXCName(Loaded(p), op[p].args.container))
    /\ lxc[GetLXCName(Loaded(p), op[p].args.container)].privileged

\* C11: on a privileged container a read-write Mount and a Mount whose
\* resolved source is /home or below it fail, with AllowRiskyPath or
\* without; so does a Mount that cannot learn whether the container is
\* privileged.  Each of them issues no DeviceAdd and leaves the Config and
\* the document as they were, and when the arguments are valid and the name
\* and the path are free the error is one of the privilege errors.
C11_PrivilegedRestricted ==
    \A p \in Procs :
        MountCalled(p)
        => LET a == op[p].args
               v == ValidateSourcePath(a.source)
               restricted == a.ReadWrite \/ (v.err = "ok" /\ UnderHome(v.path))
           IN  /\ (TargetPrivileged(p) /\ restricted)
                  => /\ MountRefused(p)
                     /\ (MountArgsValid(p) /\ ~NameTaken(p) /\ ~PathTaken(p))
                        => ret[p] \in PrivilegeErrors
               /\ ret[p] \in PrivilegeErrors => MountRefused(p)

\* a read-only Mount of /home with AllowRiskyPath on a privileged container
\* was refused
C11_Witness ==
    \E p \in Procs :
        /\ pc[p] = "done" /\ MountCalled(p) /\ TargetPrivileged(p)
        /\ op[p].args.source = p_home
        /\ op[p].args.AllowRiskyPath /\ ~op[p].args.ReadWrite
        /\ ret[p] = "mounting /home is blocked"
        /\ calls[p] = <<>>
        /\ disk = base[p]

\* the config of a disk device for a resolved source and a container path
DiskConfig(source, path, readonly, shift) ==
    [k \in {str_source, str_path}
           \cup (IF readonly THEN {str_readonly} ELSE {})
           \cup (IF shift THEN {str_shift} ELSE {}) |->
        IF k = str_source THEN source
        ELSE IF k = str_path THEN path
        ELSE str_true]

\* C13: after a successful Mount the one DeviceAdd of the call carried, and
\* the runtime and the saved document hold under the device name, a device
\* of type disk whose config has source = the symlink-resolved source,
\* path = the container path of the call, readonly=true exactly when
\* read-write was not requested, shift=true exactly when shift was
\* requested, and no other key.
C13_SameDeviceBothSides ==
    \A p \in Procs :
        (pc[p] = "done" /\ MountCalled(p) /\ ret[p] = "ok")
        => LET a == op[p].args
               want == Device(str_disk,
                              DiskConfig(EvalSymlinks(Clean(a.source)), a.path,
                                         ~a.ReadWrite, a.Shift))
               lxcName == GetLXCName(cfg[p], a.container)
               saved == Load(disk, ProjectDir)
           IN  /\ op[p].adds = <<DeviceAddArgs(op[p].dev, want.Type, want.Config)>>
               /\ op[p].dev \in DOMAIN lxc[lxcName].devices
               /\ lxc[lxcName].devices[op[p].dev] = want
               /\ saved.err = "ok"
               /\ HasDevice(saved.cfg, a.container, op[p].dev)
               /\ GetDevices(saved.cfg, a.container)[op[p].dev] = want

\* a Mount of the symlink /srv/link succeeded and the device has the
\* target of the link as its source, in the runtime and in the document
C13_Witness ==
    \E p \in Procs :
        /\ pc[p] = "done" /\ MountCalled(p) /\ ret[p] = "ok"
        /\ op[p].args.source = p_srv_link
        /\ lxc[lxc_test_dev1].devices[op[p].dev].Config[str_source] = p_tmp
        /\ str_readonly \in DOMAIN lxc[lxc_test_dev1].devices[op[p].dev].Config
        /\ GetDevices(Load(disk, ProjectDir).cfg, str_dev1)[op[p].dev]
             = lxc[lxc_test_dev1].devices[op[p].dev]

(***************************************************************************)
(* Properties of Unmount, ListMounts and SyncMounts.                       *)
(***************************************************************************)
\* the host path is on the deny-list of ValidateSourcePath
SourceDenied(source) ==
    \/ Clean(source) \in BlockedHostPaths
    \/ \E pat \in BlockedHostPatterns : HasSuffix(Clean(source), pat)

\* C12: every DeviceAdd call an operation has made carries a source that is
\* not on the host deny-list, a container path that ValidateContainerPath
\* accepts and a device name that ValidateMountName accepts.
C12_DeviceAddValidated ==
    \A p \in Procs :
        \A i \in 1..Len(op[p].adds) :
            LET call == op[p].adds[i]
            IN  /\ ~SourceDenied(MapGet(call.config, str_source))
                /\ ValidateContainerPath(MapGet(call.config, str_path)) = "ok"
                /\ ValidateMountName(call.name) = "ok"

\* Unmount has been called by p; op[p].args.path is its nameOrPath
UnmountCalled(p) == op[p].kind = "unmount" /\ op[p].args # NoArgs

\* the declared devices of the container whose config path is path
DeclaredAtPath(c, containerName, path) ==
    {n \in DOMAIN GetDevices(c, containerName) :
        MapGet(GetDevices(c, containerName)[n].Config, str_path) = path}

\* C14: Unmount of an argument that starts with "/" works on a declared
\* device whose config path equals the argument, and fails with "no device
\* found with path" when there is none; any other argument is the device
\* name itself, and Unmount fails with "device not found" when the container
\* does not declare it.  A failing Unmount of these kinds, and one on a
\* container the project does not have, issues no DeviceRemove, leaves the
\* Config as loaded and saves nothing.
C14_UnmountResolves ==
    \A p \in Procs :
        UnmountCalled(p)
        => LET c == op[p].args.container
               a == op[p].args.path
               declared == DOMAIN GetDevices(Loaded(p), c)
               byPath == DeclaredAtPath(Loaded(p), c, a)
           IN  /\ ~HasContainer(Loaded(p), c) => MountRefused(p)
               /\ ret[p] \in {"no device found with path", "device not found"}
                  => MountRefused(p)
               /\ (HasContainer(Loaded(p), c) /\ LxcExists(lxc, GetLXCName(Loaded(p), c)))
                  => IF HasPrefix(a, <<"/">>)
                     THEN IF byPath = {}
                          THEN ret[p] = "no device found with path"
                          ELSE /\ op[p].dev \in byPath
                               /\ ret[p] \notin {"no device found with path",
                                                 "device not found"}
                     ELSE IF a \notin declared
                          THEN ret[p] = "device not found"
                          ELSE /\ op[p].dev = a
                               /\ ret[p] # "device not found"
               /\ (pc[p] = "done" /\ ret[p] = "ok")
                  => /\ calls[p] = <<"DeviceRemove">>
                     /\ op[p].dev \in declared
                     /\ op[p].dev \notin DeclaredDevices(disk, c)

\* Unmount by a path no declared device has, on a container that declares
\* devices, was refused; nothing was removed and nothing saved
C14_Witness ==
    \E p \in Procs :
        /\ pc[p] = "done" /\ UnmountCalled(p)
        /\ op[p].args.path = p_d
        /\ str_repo \in DOMAIN GetDevices(Loaded(p), str_dev1)
        /\ ret[p] = "no device found with path"
        /\ calls[p] = <<>>
        /\ disk = base[p]

\* ListMounts has returned a list to p
ListReturned(p) == op[p].kind = "listmounts" /\ pc[p] = "done" /\ ret[p] = "ok"

\* the names of the disk devices among devices
DiskNames(devices) == {n \in DOMAIN devices : devices[n].Type = str_disk}

\* the list is in strictly ascending order of name
SortedByName(ms) ==
    \A i, j \in 1..Len(ms) : i < j => StrLess(ms[i].Name, ms[j].Name)

\* C15: the list ListMounts returns has exactly one entry for each name that
\* is a declared disk device or a live disk device, in ascending order of
\* name; the entry of a declared disk device has status ok when the name is
\* a live disk device and missing when it is not, and carries the declared
\* source, path and mode; the entry of a live disk device that is not a
\* declared disk device has status untracked and carries the live source,
\* path and mode.  Devices of other types have no entry of their own.
C15_ListClassifies ==
    \A p \in Procs :
        ListReturned(p)
        => LET ms == op[p].mounts
               declared == GetDevices(cfg[p], str_dev1)
               live == lxc[lxc_test_dev1].devices
               D == DiskNames(declared)
               L == DiskNames(live)
           IN  /\ {ms[i].Name : i \in 1..Len(ms)} = D \cup L
               /\ Len(ms) = Cardinality(D \cup L)
               /\ SortedByName(ms)
               /\ \A i \in 1..Len(ms) :
                     LET n == ms[i].Name
                         dev == IF n \in D THEN declared[n] ELSE live[n]
                     IN  /\ ms[i].Status = (IF n \in D /\ n \in L THEN "ok"
                                            ELSE IF n \in D THEN "missing"
                                            ELSE "untracked")
                         /\ ms[i].Source = MapGet(dev.Config, str_source)
                         /\ ms[i].Path = MapGet(dev.Config, str_path)
                         /\ ms[i].Mode = (IF MapGet(dev.Config, str_readonly) = str_true
                                          THEN str_ro ELSE str_rw)

\* a list with an ok, a missing and an untracked entry, from a container
\* that also has a declared and a live network device
C15_Witness ==
    \E p \in Procs :
        /\ ListReturned(p)
        /\ Len(op[p].mounts) = 3
        /\ {op[p].mounts[i].Status : i \in 1..3} = {"ok", "missing", "untracked"}
        /\ HasDevice(cfg[p], str_dev1, str_eth0)
        /\ str_eth0 \in DOMAIN lxc[lxc_test_dev1].devices
        /\ lxc[lxc_test_dev1].devices[str_eth0].Type = str_nic

\* the scenario: the container declares exactly repo, with source /host and
\* path /ws, and the live disk devices are repo and extra
RepoExtraScenario(p) ==
    /\ ListReturned(p)
    /\ DOMAIN GetDevices(cfg[p], str_dev1) = {str_repo}
    /\ GetDevices(cfg[p], str_dev1)[str_repo].Type = str_disk
    /\ MapGet(GetDevices(cfg[p], str_dev1)[str_repo].Config, str_source) = p_host
    /\ MapGet(GetDevices(cfg[p], str_dev1)[str_repo].Config, str_path) = p_ws
    /\ DiskNames(lxc[lxc_test_dev1].devices) = {str_repo, str_extra}

\* the names and the statuses of a list
NamesAndStatuses(ms) == [i \in 1..Len(ms) |-> <<ms[i].Name, ms[i].Status>>]

\* C16 as stated: in the scenario ListMounts returns repo with status ok
\* first and extra with status untracked second.
C16_RepoThenExtra ==
    \A p \in Procs :
        RepoExtraScenario(p)
        => NamesAndStatuses(op[p].mounts)
             = << <<str_repo, "ok">>, <<str_extra, "untracked">> >>

\* C16: in the scenario ListMounts returns the two entries in the order of
\* their names: extra with status untracked first, repo with status ok
\* second.
C16_ExtraThenRepo ==
    \A p \in Procs :
        RepoExtraScenario(p)
        => NamesAndStatuses(op[p].mounts)
             = << <<str_extra, "untracked">>, <<str_repo, "ok">> >>

\* ListMounts has returned the two entries of the scenario
C16_Witness ==
    \E p \in Procs :
        /\ RepoExtraScenario(p)
        /\ Len(op[p].mounts) = 2
        /\ op[p].mounts[1].Name = str_extra
        /\ op[p].mounts[2].Source = p_host

\* SyncMounts has returned nil to p
SyncSucceeded(p) == op[p].kind = "syncmounts" /\ pc[p] = "done" /\ ret[p] = "ok"

\* the Config that the document on disk holds
Saved == Unmarshal(disk.doc, ProjectDir)

\* the step of p in which the loop of SyncMounts runs to its end
SyncLoopDone(p) ==
    /\ pc[p] = "body" /\ op[p].kind = "syncmounts"
    /\ pc'[p] = "save_create"

\* the loop has declared every untracked device with type disk and the live
\* source, path and read-only mode, and has added every missing device to
\* the runtime as it is declared
C17_Step ==
    \A p \in Procs :
        SyncLoopDone(p)
        => LET c == op'[p].args.container
               lxcName == GetLXCName(cfg[p], c)
               declared == GetDevices(cfg[p], c)
               live == lxc[lxcName].devices
               untracked == DiskNames(live) \ DiskNames(declared)
               missing == DiskNames(declared) \ DiskNames(live)
           IN  /\ \A n \in untracked :
                     /\ HasDevice(cfg'[p], c, n)
                     /\ GetDevices(cfg'[p], c)[n]
                          = Device(str_disk,
                                   DiskConfig(MapGet(live[n].Config, str_source),
                                              MapGet(live[n].Config, str_path),
                                              MapGet(live[n].Config, str_readonly) = str_true,
                                              FALSE))
               /\ \A n \in missing :
                     /\ n \in DOMAIN lxc'[lxcName].devices
                     /\ lxc'[lxcName].devices[n] = declared[n]
                     /\ \E i \in 1..Len(op'[p].adds) :
                           op'[p].adds[i]
                             = DeviceAddArgs(n, declared[n].Type, declared[n].Config)
               /\ Len(op'[p].adds) = Cardinality(missing)

\* after a successful SyncMounts the document on disk holds the Config the
\* loop built, ListMounts reports every entry as ok, and the loop of a
\* second SyncMounts makes no DeviceAdd call
C17_After ==
    \A p \in Procs :
        SyncSucceeded(p)
        => LET c == op[p].args.container
               l == ListMounts(cfg[p], lxc, c, TRUE)
               again == SyncLoop(l.mounts, GetDevices(cfg[p], c), c,
                                 GetLXCName(cfg[p], c),
                                 SyncState(cfg[p], lxc, <<>>, "ok"), 0)
           IN  /\ disk.kind = "yaml" /\ disk.written = "all"
               /\ Saved = cfg[p]
               /\ l.err = "ok"
               /\ \A i \in 1..Len(l.mounts) : l.mounts[i].Status = "ok"
               /\ again.adds = <<>>
               /\ again.cfg = cfg[p]

\* C17: a SyncMounts that succeeds, on a runtime that applies each DeviceAdd
\* and does not change otherwise, declares every untracked device in the
\* saved document with type disk and the live device's source, path and
\* read-only mode, re-adds every missing device to the runtime with its
\* declared type and config, and leaves a state in which ListMounts reports
\* every entry as ok and a second SyncMounts issues no DeviceAdd.
C17_SyncConverges == [][C17_Step]_vars /\ []C17_After

\* a SyncMounts that found an untracked and a missing device has succeeded
C17_Witness ==
    \E p \in Procs :
        /\ SyncSucceeded(p)
        /\ \E i \in 1..Len(op[p].mounts) : op[p].mounts[i].Status = "untracked"
        /\ \E i \in 1..Len(op[p].mounts) : op[p].mounts[i].Status = "missing"
        /\ Len(op[p].adds) > 0
        /\ HasDevice(Saved, str_dev1, str_extra)

\* SyncMounts has been called by p and has got past its ListMounts
SyncCalled(p) == op[p].kind = "syncmounts" /\ op[p].args # NoArgs

\* C18: every device the document declared when SyncMounts loaded it is
\* still declared, with the same type and config, in the Config SyncMounts
\* works on and in the document on disk, whatever the type of the device;
\* and no DeviceAdd is made for an entry ListMounts reported as ok.
C18_DeclaredUntouched ==
    \A p \in Procs :
        SyncCalled(p)
        => LET c == op[p].args.container
               before == GetDevices(Loaded(p), c)
           IN  /\ \A n \in DOMAIN before :
                     /\ HasDevice(cfg[p], c, n)
                     /\ GetDevices(cfg[p], c)[n] = before[n]
                     /\ HasDevice(Saved, c, n)
                     /\ GetDevices(Saved, c)[n] = before[n]
               /\ \A i \in 1..Len(op[p].mounts) :
                     op[p].mounts[i].Status = "ok"
                     => \A j \in 1..Len(op[p].adds) :
                           op[p].adds[j].name # op[p].mounts[i].Name

ReAddError == "failed to re-add device"

\* what a step of p may do around the Save of SyncMounts: Save starts from
\* the end of the loop only, nothing reaches the runtime once it has
\* started, the document changes in its rename alone, and after SyncMounts
\* has its result there is no further Save
C19_Step ==
    \A p \in Procs :
        SyncCalled(p)
        => /\ (pc'[p] = "save_create" /\ pc[p] # "save_create") => pc[p] = "body"
           /\ pc[p] \in SavePcs
              => /\ lxc' = lxc
                 /\ op'[p].adds = op[p].adds
                 /\ calls'[p] = calls[p]
           /\ disk' # disk => (pc[p] = "save_rename" /\ ret'[p] = "ok")
           /\ pc[p] \in {"release", "done"} => (pc'[p] \notin SavePcs /\ disk' = disk)

\* a SyncMounts whose DeviceAdd failed has made no call after it and has
\* not saved; a SyncMounts that saved did so after all its DeviceAdd calls
\* had been applied
C19_FailFast ==
    \A p \in Procs :
        SyncCalled(p)
        => LET c == op[p].args.container
               live == lxc[GetLXCName(cfg[p], c)].devices
               applied(i) ==
                   /\ op[p].adds[i].name \in DOMAIN live
                   /\ live[op[p].adds[i].name]
                        = Device(op[p].adds[i].type, op[p].adds[i].config)
           IN  /\ ret[p] = ReAddError
                  => /\ pc[p] \in {"release", "done"}
                     /\ disk = base[p]
                     /\ tmp[p] = NoFile
                     /\ Len(op[p].adds) >= 1
                     /\ ~applied(Len(op[p].adds))
                     /\ \A i \in 1..(Len(op[p].adds) - 1) : applied(i)
               /\ (pc[p] \in SavePcs \/ ret[p] \in {"ok", SaveError})
                  => \A i \in 1..Len(op[p].adds) : applied(i)
               /\ disk # base[p] => ret[p] = "ok"

\* C19: SyncMounts calls Save at most once, after the last DeviceAdd of the
\* loop; when a DeviceAdd fails SyncMounts returns the error at once,
\* without a further DeviceAdd and without a Save, and the document on disk
\* is the one it loaded.
C19_SaveOnceAtEnd == [][C19_Step]_vars /\ []C19_FailFast

\* the second DeviceAdd of a SyncMounts has failed: the first device is in
\* the runtime, nothing was saved
C19_Witness ==
    \E p \in Procs :
        /\ SyncCalled(p) /\ pc[p] = "done"
        /\ ret[p] = ReAddError
        /\ Len(op[p].adds) = 2
        /\ op[p].adds[1].name \in DOMAIN lxc[lxc_test_dev1].devices
        /\ op[p].adds[2].name \notin DOMAIN lxc[lxc_test_dev1].devices
        /\ disk = base[p]

(***************************************************************************)
(* Properties of DeleteSnapshot.                                           *)
(***************************************************************************)
\* DeleteSnapshot has been called by p for the snapshot op[p].args.name
DeleteSnapshotCalled(p) == op[p].kind = "rmsnap" /\ op[p].args # NoArgs

\* the snapshot initial-state of dev1 is in the runtime
InitialStateTaken(rt) ==
    /\ LxcExists(rt, lxc_test_dev1)
    /\ str_initial_state \in rt[lxc_test_dev1].snapshots

\* the document in file records the snapshot initial-state of dev1
InitialStateRecorded(file) ==
    /\ file.kind = "yaml" /\ file.written = "all"
    /\ HasSnapshot(Unmarshal(file.doc, ProjectDir), str_dev1, str_initial_state)

\* a DeleteSnapshot of initial-state has failed without a call to the runtime
\* and without a change to the Config or the document
C20_Refused ==
    \A p \in Procs :
        (DeleteSnapshotCalled(p) /\ op[p].args.name = str_initial_state)
        => /\ MountRefused(p)
           /\ HasContainer(Loaded(p), op[p].args.container)
              => ret[p] = "cannot delete 'initial-state' snapshot"

\* no step takes initial-state out of the runtime or out of the document
C20_Kept ==
    /\ InitialStateTaken(lxc) => InitialStateTaken(lxc')
    /\ InitialStateRecorded(disk) => InitialStateRecorded(disk')

\* C20: DeleteSnapshot of the name initial-state fails every time, makes no
\* DeleteSnapshot call to the runtime and leaves the Config and the document
\* as they were; and whatever DeleteSnapshot calls are made one after the
\* other, an initial-state snapshot that is in the runtime stays in the
\* runtime and one that the document records stays recorded.
C20_InitialStateProtected == []C20_Refused /\ [][C20_Kept]_vars

\* after another snapshot has been deleted, a DeleteSnapshot of initial-state
\* was refused, and initial-state is still in the runtime and the document
C20_Witness ==
    \E p \in Procs :
        /\ pc[p] = "done" /\ DeleteSnapshotCalled(p)
        /\ op[p].args.name = str_initial_state
        /\ ret[p] = "cannot delete 'initial-state' snapshot"
        /\ calls[p] = <<>>
        /\ InitialStateTaken(lxc) /\ InitialStateRecorded(disk)
        /\ str_snap1 \notin lxc[lxc_test_dev1].snapshots
        /\ ~HasSnapshot(Saved, str_dev1, str_snap1)

(***************************************************************************)
(* Properties of Load, Save and the Config they exchange.                  *)
(***************************************************************************)
\* Load has returned to p
LoadReturned(p) == op[p].kind \in {"reload", "getuser"} /\ pc[p] = "done"

PortsValid(ports) ==
    /\ \A i \in 1..Len(ports) : ports[i] >= 1 /\ ports[i] <= 65535
    /\ \A i, j \in 1..Len(ports) : ports[i] = ports[j] => i = j

ControlChar(ch) == ch \in {"NUL", "\t", "\n", "\r", "DEL"}

TextField(config, key) ==
    /\ key \in DOMAIN config
    /\ config[key] # <<>>
    /\ \A i \in 1..Len(config[key]) : ~ControlChar(config[key][i])

DeviceShapeValid(device) ==
    /\ device.Type # <<>>
    /\ device.Type = str_disk
       => TextField(device.Config, str_source) /\ TextField(device.Config, str_path)

\* full validation of a parsed tree, rule by rule; an empty project name
\* stands for a project without a prefix
FullyValid(t) ==
    /\ t.Project = <<>>
       \/ \A i \in 1..Len(t.Project) : t.Project[i] \in Letter \cup Digit \cup {"_", "-"}
    /\ PortsValid(t.Defaults.Ports)
    /\ \A n \in DOMAIN t.Containers :
          /\ ValidateFullContainerName(t.Project, n) = "ok"
          /\ PortsValid(t.Containers[n].Ports)
          /\ \A d \in DOMAIN t.Containers[n].Devices :
                DeviceShapeValid(t.Containers[n].Devices[d])

\* C21: Load returns a Config only when the document exists, parses and
\* passes full validation, and then it is the parsed tree; for an absent
\* document it returns ErrNoProject and a nil Config; on a parse failure or
\* a validation violation it returns another error and no Config.
C21_LoadValidates ==
    \A p \in Procs :
        LoadReturned(p)
        => LET whole == disk.kind = "yaml" /\ disk.written = "all"
               tree == Unmarshal(disk.doc, ProjectDir)
           IN  /\ ret[p] = "ok" <=> (whole /\ FullyValid(tree))
               /\ ret[p] = "ok" => cfg[p] = tree
               /\ ret[p] # "ok" => cfg[p] = NilCfg
               /\ ret[p] = "ErrNoProject" <=> disk.kind = "absent"
               /\ (disk.kind # "absent" /\ ~whole) => ret[p] = "invalid YAML"
               /\ (whole /\ ~FullyValid(tree)) => ret[p] = "invalid configuration"

\* Load has refused a document for one device only: a disk device whose
\* source has a control character in it
C21_Witness ==
    /\ LoadReturned("p1")
    /\ ret["p1"] = "invalid configuration"
    /\ disk = YamlFile(Marshal(Config(ProjectDir, str_test, <<>>,
                  MapPut(EmptyMap, str_dev1,
                         Container(str_image, <<>>, <<>>, EmptyMap,
                                   MapPut(EmptyMap, str_repo, NewlineDevice))))), "all")

\* the fields of two users, compared one by one
SameUser(a, b) == a.Name = b.Name /\ a.Password = b.Password

SameContainer(a, b) ==
    /\ a.Image = b.Image
    /\ a.Ports = b.Ports
    /\ SameUser(a.User, b.User)
    /\ Len(a.Sync) = Len(b.Sync)
    /\ \A i \in 1..Len(a.Sync) :
          a.Sync[i].Source = b.Sync[i].Source /\ a.Sync[i].Dest = b.Sync[i].Dest
    /\ DOMAIN a.Snapshots = DOMAIN b.Snapshots
    /\ \A n \in DOMAIN a.Snapshots :
          /\ a.Snapshots[n].Description = b.Snapshots[n].Description
          /\ a.Snapshots[n].CreatedAt = b.Snapshots[n].CreatedAt
    /\ DOMAIN a.Devices = DOMAIN b.Devices
    /\ \A n \in DOMAIN a.Devices :
          /\ a.Devices[n].Type = b.Devices[n].Type
          /\ DOMAIN a.Devices[n].Config = DOMAIN b.Devices[n].Config
          /\ \A k \in DOMAIN a.Devices[n].Config :
                a.Devices[n].Config[k] = b.Devices[n].Config[k]

\* the serialized fields of two Configs, compared one by one
SameTree(a, b) ==
    /\ a.Project = b.Project
    /\ a.Defaults.Ports = b.Defaults.Ports
    /\ SameUser(a.Defaults.User, b.Defaults.User)
    /\ DOMAIN a.Containers = DOMAIN b.Containers
    /\ \A n \in DOMAIN a.Containers : SameContainer(a.Containers[n], b.Containers[n])

\* C22: for every Config that passes validation, Save followed by Load of
\* the same directory succeeds and yields a tree field-for-field equal to
\* the one saved: project, defaults, and every container's image, ports,
\* user, sync list in order, snapshots and devices.
C22_RoundTrip ==
    \A p \in Procs :
        (op[p].kind = "saveload" /\ FullyValid(op[p].saved))
        => /\ ret[p] = "ok"
           /\ SameTree(cfg[p], op[p].saved)
           /\ cfg[p].Dir = IF op[p].saved.Dir = <<>> THEN <<".">> ELSE op[p].saved.Dir

\* a Config with default ports and a default user, and a container with
\* ports, a user, two sync entries, two snapshots and two devices, has been
\* saved and loaded
C22_Witness ==
    /\ op["p1"].kind = "saveload"
    /\ ret["p1"] = "ok"
    /\ op["p1"].saved.Defaults = [Ports |-> <<80, 443>>, User |-> User(<<>>, str_pw1)]
    /\ HasContainer(op["p1"].saved, str_dev1)
    /\ LET ct == op["p1"].saved.Containers[str_dev1]
       IN  /\ ct.Ports = <<8080>>
           /\ ct.User = User(str_alice, <<>>)
           /\ Len(ct.Sync) = 2
           /\ DOMAIN ct.Snapshots = {str_initial_state, str_snap1}
           /\ DOMAIN ct.Devices = {str_repo, str_eth0}

(***************************************************************************)
(* Properties of CreateContainer and Clone.                                *)
(***************************************************************************)
\* CreateContainer or Clone is about to run, or has run, its checks
CreateCalled(p) == op[p].kind \in {"create", "clone"}

\* the new name is not a valid container name, or with the project prefix
\* it has more than 63 characters
NewNameInvalid(c, name) ==
    \/ ValidateContainerName(name) # "ok"
    \/ Len(GetLXCName(c, name)) > 63

\* the new name is in the document or in the runtime already
NewNameTaken(c, rt, name) ==
    HasContainer(c, name) \/ LxcExists(rt, GetLXCName(c, name))

\* the step in which CreateContainer or Clone makes its checks refuses a bad
\* name and touches nothing; a call that has returned an error before its
\* Save does nothing more to the runtime or to the document
C28_Step ==
    \A p \in Procs :
        CreateCalled(p)
        => /\ (pc[p] = "body" /\ pc'[p] # "body"
                 /\ (\/ NewNameInvalid(cfg[p], op'[p].args.container)
                     \/ NewNameTaken(cfg[p], lxc, op'[p].args.container)))
              => /\ pc'[p] = "release"
                 /\ ret'[p] \notin {"ok", "none"}
                 /\ lxc' = lxc
                 /\ calls'[p] = <<>>
                 /\ cfg'[p] = cfg[p]
                 /\ disk' = disk
                 /\ tmp'[p] = NoFile
           /\ pc[p] \in {"release", "done"}
              => (lxc' = lxc /\ disk' = disk /\ calls'[p] = calls[p] /\ tmp' = tmp)

\* a call that loaded the document and made no runtime call has left the
\* document and its Config as loaded
C28_Untouched ==
    \A p \in Procs :
        (CreateCalled(p) /\ base[p] # NoFile /\ pc[p] \in {"release", "done"}
           /\ calls[p] = <<>>)
        => /\ disk = base[p]
           /\ cfg[p] = Loaded(p)
           /\ tmp[p] = NoFile
           /\ ret[p] # "ok"

\* C28: CreateContainer and Clone reject an invalid new container name (per
\* ValidateContainerName and the 63-character combined limit) and a name
\* that exists in the document or in the runtime before any Launch, Copy or
\* CopySnapshot, and without changing or saving the document.
C28_RejectedBeforeMutation == [][C28_Step]_vars /\ []C28_Untouched

\* dev22 is a valid name, but with the 58-character project the runtime
\* name would have 64 characters: refused, and nothing was launched
C28_Witness ==
    /\ op["p1"].kind = "create"
    /\ pc["p1"] = "done"
    /\ op["p1"].args.container = str_dev22
    /\ ValidateContainerName(str_dev22) = "ok"
    /\ cfg["p1"].Project = Project58
    /\ ret["p1"] = "full name too long"
    /\ calls["p1"] = <<>>
    /\ disk = base["p1"]

\* the naming rules: a letter first, then letters, digits and hyphens, no
\* hyphen at either end, no two hyphens in a row
NamingRules(s) ==
    /\ s # <<>>
    /\ s[1] \in Letter
    /\ \A i \in 1..Len(s) : s[i] \in Letter \cup Digit \cup {"-"}
    /\ s[Len(s)] # "-"
    /\ \A i \in 1..(Len(s) - 1) : ~(s[i] = "-" /\ s[i + 1] = "-")

\* p holds a Config that Load has returned, or one that a successful
\* CreateContainer or Clone has left
ProjectInHand(p) ==
    /\ CreateCalled(p)
    /\ pc[p] = "body" \/ (pc[p] = "done" /\ ret[p] = "ok")

\* the runtime names of the containers of p's Config have at most 63
\* characters
C23_RuntimeNamesShort ==
    \A p \in Procs :
        ProjectInHand(p)
        => \A n \in DOMAIN cfg[p].Containers : Len(GetLXCName(cfg[p], n)) <= 63

\* C23: for every Project that a successful Load returns, and after every
\* successful CreateContainer or Clone, the project-prefixed runtime name
\* of each container has at most 63 characters and itself matches the
\* naming rules.
C23_RuntimeNamesValid ==
    \A p \in Procs :
        ProjectInHand(p)
        => \A n \in DOMAIN cfg[p].Containers :
              /\ Len(GetLXCName(cfg[p], n)) <= 63
              /\ NamingRules(GetLXCName(cfg[p], n))

(***************************************************************************)
(* Properties of GetUser.                                                  *)
(***************************************************************************)
\* the first string of the sequence that is not empty
FirstNonEmpty(strings) ==
    strings[CHOOSE i \in 1..Len(strings) :
                /\ strings[i] # <<>>
                /\ \A j \in 1..(i - 1) : strings[j] = <<>>]

\* C30: GetUser is a three-tier cascade.  A container with a user name
\* gives that name with the container's password, else the defaults'
\* password, else dev; otherwise defaults with a user name give that name
\* with the defaults' password, else dev; otherwise dev/dev.  A container
\* that does not exist counts as one without a user.
C30_GetUserCascade ==
    \A p \in Procs :
        op[p].kind = "getuser"
        => LET name == op[p].args.container
               own == IF name \in DOMAIN cfg[p].Containers
                      THEN cfg[p].Containers[name].User
                      ELSE [Name |-> <<>>, Password |-> <<>>]
               def == cfg[p].Defaults.User
               got == op[p].user
           IN  /\ own.Name # <<>>
                  => /\ got.Name = own.Name
                     /\ got.Password
                          = FirstNonEmpty(<<own.Password, def.Password, str_dev>>)
               /\ (own.Name = <<>> /\ def.Name # <<>>)
                  => /\ got.Name = def.Name
                     /\ got.Password = FirstNonEmpty(<<def.Password, str_dev>>)
               /\ (own.Name = <<>> /\ def.Name = <<>>)
                  => (got.Name = str_dev /\ got.Password = str_dev)

\* the container names its user without a password and the defaults have a
\* password without a name: the user is the container's with the defaults'
\* password
C30_Witness ==
    /\ op["p1"].kind = "getuser"
    /\ op["p1"].args.container = str_dev1
    /\ HasContainer(cfg["p1"], str_dev1)
    /\ cfg["p1"].Containers[str_dev1].User = User(str_alice, <<>>)
    /\ cfg["p1"].Defaults.User = User(<<>>, str_pw1)
    /\ op["p1"].user = User(str_alice, str_pw1)

(***************************************************************************)
(* Properties of the sync list.                                            *)
(***************************************************************************)
DistinctSources(sync) ==
    \A i, j \in 1..Len(sync) : sync[i].Source = sync[j].Source => i = j

SyncOf(c, containerName) ==
    IF containerName \in DOMAIN c.Containers THEN c.Containers[containerName].Sync
    ELSE <<>>

\* new is old with entry put in: at the place of the entry of the same
\* source when there is one, at the end otherwise
PutIn(old, new, entry) ==
    IF \E i \in 1..Len(old) : old[i].Source = entry.Source
    THEN /\ Len(new) = Len(old)
         /\ \A i \in 1..Len(old) :
               new[i] = IF old[i].Source = entry.Source THEN entry ELSE old[i]
    ELSE /\ Len(new) = Len(old) + 1
         /\ new[Len(new)] = entry
         /\ \A i \in 1..Len(old) : new[i] = old[i]

\* new is old without the entry of the source, the rest in its order; new
\* is old when no entry has the source
TakenOut(old, new, source) ==
    IF \E i \in 1..Len(old) : old[i].Source = source
    THEN \E i \in 1..Len(old) :
            /\ old[i].Source = source
            /\ Len(new) = Len(old) - 1
            /\ \A j \in 1..(i - 1) : new[j] = old[j]
            /\ \A j \in i..Len(new) : new[j] = old[j + 1]
    ELSE new = old

\* what a step that is AddSyncEntry or RemoveSyncEntry does to the list of
\* the container named, and to nothing else in the Config; for a container
\* the Config does not have it does nothing
C29_Step ==
    \A p \in Procs : \A c \in SyncListContainers :
        LET same == /\ DOMAIN cfg'[p].Containers = DOMAIN cfg[p].Containers
                    /\ \A n \in DOMAIN cfg[p].Containers \ {c} :
                          cfg'[p].Containers[n] = cfg[p].Containers[n]
        IN  /\ \A e \in SyncListEntries :
                  AddSyncEntryBody(p, c, e)
                  => IF HasContainer(cfg[p], c)
                     THEN PutIn(SyncOf(cfg[p], c), SyncOf(cfg'[p], c), e) /\ same
                     ELSE cfg'[p] = cfg[p]
            /\ \A src \in SyncListSources :
                  RemoveSyncEntryBody(p, c, src)
                  => IF HasContainer(cfg[p], c)
                     THEN TakenOut(SyncOf(cfg[p], c), SyncOf(cfg'[p], c), src) /\ same
                     ELSE cfg'[p] = cfg[p]

\* the sources stay distinct, in memory and in the document
C29_Distinct ==
    /\ \A p \in Procs : \A c \in DOMAIN cfg[p].Containers :
          DistinctSources(cfg[p].Containers[c].Sync)
    /\ disk.kind = "yaml"
       => \A c \in DOMAIN Saved.Containers : DistinctSources(Saved.Containers[c].Sync)

\* C29: a sync list that starts with distinct sources keeps distinct
\* sources through any sequence of AddSyncEntry and RemoveSyncEntry;
\* AddSyncEntry replaces the entry of the same source where it stands and
\* appends a new source at the end; RemoveSyncEntry takes out the entry of
\* the source and keeps the order of the rest, and changes nothing when no
\* entry has the source.
C29_SyncListKeyedBySource == [][C29_Step]_vars /\ []C29_Distinct

\* AddSyncEntry(dev1, a, /y) on the list b, a: the entry of a has its new
\* destination, still in second place, and was saved
C29_Witness ==
    /\ op["p1"].kind = "addsync"
    /\ pc["p1"] = "done"
    /\ ret["p1"] = "ok"
    /\ SyncOf(Loaded("p1"), str_dev1)
         = <<SyncEntry(<<"b">>, <<"/","y">>), SyncEntry(<<"a">>, <<"/","x">>)>>
    /\ SyncOf(Saved, str_dev1)
         = <<SyncEntry(<<"b">>, <<"/","y">>), SyncEntry(<<"a">>, <<"/","y">>)>>

(***************************************************************************)
(* Properties of the Validator.                                            *)
(***************************************************************************)
Validated(p, function) == op[p].kind = function /\ pc[p] = "done"

ReservedWords ==
    { <<"l","i","s","t">>, <<"c","r","e","a","t","e">>, <<"d","e","l","e","t","e">>,
      <<"s","t","a","r","t">>, <<"s","t","o","p">>,
      <<"s","n","a","p","s","h","o","t">>, <<"i","m","a","g","e">>,
      <<"c","o","n","f","i","g">> }

\* C24: ValidateContainerName returns no error if and only if the name is
\* non-empty, has at most 63 characters, is a letter followed by letters,
\* digits or hyphens, neither starts nor ends with a hyphen, has no two
\* hyphens in a row, and is not a reserved word (in any letter case).
C24_NameAcceptedIffRules ==
    \A p \in Procs :
        Validated(p, "ValidateContainerName")
        => LET name == op[p].args.name
           IN  ret[p] = "ok"
               <=> /\ name # <<>>
                   /\ Len(name) <= 63
                   /\ NamingRules(name)
                   /\ ToLower(name) \notin ReservedWords

\* C25: apart from the maximum length, ValidateMountName accepts exactly
\* the names ValidateContainerName accepts: for every name of at most 50
\* characters the two agree.
C25_MountNameSameRules ==
    \A p \in Procs :
        LET name == op[p].args.name
        IN  /\ (Validated(p, "ValidateMountName") /\ Len(name) <= 50)
               => (ret[p] = "ok" <=> ValidateContainerName(name) = "ok")
            /\ (Validated(p, "ValidateContainerName") /\ Len(name) <= 50)
               => (ret[p] = "ok" <=> ValidateMountName(name) = "ok")

\* what the argument of ValidateSourcePath resolves to on the host: its
\* absolute form with the symbolic link followed; <<>> when nothing is there
ResolvedOnHost(source) ==
    LET abs == Clean(source)
        target == IF abs \in DOMAIN HostSymlinks THEN HostSymlinks[abs] ELSE abs
    IN  IF target \in HostDirs \cup HostFiles THEN target ELSE <<>>

DeniedHostPaths ==
    { <<"/">>, <<"/","r","o","o","t">>, <<"/","e","t","c">>, <<"/","b","o","o","t">>,
      <<"/","p","r","o","c">>, <<"/","s","y","s">>, <<"/","d","e","v">>,
      <<"/","v","a","r","/","l","i","b","/","l","x","d">>,
      <<"/","v","a","r","/","l","i","b","/","l","x","c">> }

DeniedHostSuffixes ==
    { <<"/",".","s","s","h">>, <<"/",".","a","w","s">>, <<"/",".","g","n","u","p","g">>,
      <<"/",".","c","o","n","f","i","g","/","g","c","l","o","u","d">> }

WarnedHostPaths ==
    { <<"/","h","o","m","e">>, <<"/","v","a","r">>, <<"/","t","m","p">>,
      <<"/","o","p","t">> }

\* C26: ValidateSourcePath checks the symlink-resolved absolute path, not
\* the literal argument: when the resolved path is on the deny-list or ends
\* with a denied suffix it returns an error with no path and no warning;
\* when it succeeds the path it returns is the resolved path, and it warns
\* exactly when the resolved path is /home, /var, /tmp or /opt.
C26_ResolvedPathChecked ==
    \A p \in Procs :
        Validated(p, "ValidateSourcePath")
        => LET resolved == ResolvedOnHost(op[p].args.source)
               out == op[p].resolved
           IN  /\ out.err = ret[p]
               /\ (\/ resolved \in DeniedHostPaths
                   \/ \E suf \in DeniedHostSuffixes : HasSuffix(resolved, suf))
                  => out.err # "ok"
               /\ out.err # "ok" => (out.path = <<>> /\ out.warning = "")
               /\ out.err = "ok"
                  => /\ out.path = resolved
                     /\ resolved # <<>>
                     /\ out.warning # "" <=> resolved \in WarnedHostPaths

\* /srv/etc, a symbolic link to /etc, has been refused, and /srv/etc itself
\* is on no list
C26_Witness ==
    /\ Validated("p1", "ValidateSourcePath")
    /\ op["p1"].args.source = p_srv_etc
    /\ p_srv_etc \notin DeniedHostPaths
    /\ ResolvedOnHost(p_srv_etc) = p_etc
    /\ ret["p1"] = "not allowed"
    /\ op["p1"].resolved.path = <<>>

\* C27: ValidateContainerPath succeeds if and only if the path starts with
\* a slash, has at most 4096 characters, has no NUL, newline, carriage
\* return or tab in it, and its cleaned form is not exactly /, /proc, /sys
\* or /dev.
C27_PathAcceptedIffRules ==
    \A p \in Procs :
        Validated(p, "ValidateContainerPath")
        => LET path == op[p].args.path
           IN  ret[p] = "ok"
               <=> /\ path # <<>>
                   /\ path[1] = "/"
                   /\ Len(path) <= 4096
                   /\ \A i \in 1..Len(path) : path[i] \notin {"NUL", "\n", "\r", "\t"}
                   /\ Clean(path) \notin { <<"/">>, <<"/","p","r","o","c">>,
                                           <<"/","s","y","s">>, <<"/","d","e","v">> }

\* C31: ValidatePorts succeeds if and only if every port is in [1, 65535]
\* and no port occurs twice in the list; the empty list is valid.
C31_PortsValidIffRules ==
    \A p \in Procs :
        Validated(p, "ValidatePorts")
        => LET ports == op[p].ports
           IN  /\ ret[p] = "ok"
                  <=> /\ \A i \in 1..Len(ports) : ports[i] >= 1 /\ ports[i] <= 65535
                      /\ \A i, j \in 1..Len(ports) : ports[i] = ports[j] => i = j
               /\ ports = <<>> => ret[p] = "ok"

\* a list of valid ports with one of them twice, not next to each other,
\* has been refused as a duplicate
C31_Witness ==
    /\ Validated("p1", "ValidatePorts")
    /\ op["p1"].ports = <<80, 1, 80>>
    /\ ret["p1"] = "duplicate port"

\* C35: for every source path GenerateMountName returns a name of at most
\* 50 characters made of letters, digits and single hyphens, that starts
\* with a letter and does not end with a hyphen, so that ValidateMountName
\* accepts it; a base name of 100 letters gives a name of exactly 50
\* characters.
C35_GeneratedNameValid ==
    \A p \in Procs :
        Validated(p, "GenerateMountName")
        => LET name == op[p].generated
           IN  /\ Len(name) <= 50
               /\ NamingRules(name)
               /\ ValidateMountName(name) = "ok"
               /\ op[p].args.source = <<"/","h","/">> \o LongName(100)
                  => Len(name) = 50

\* the message of the first rule, in the documented order, that a name breaks
FirstFailingRule(name) ==
    IF name = <<>> THEN "cannot be empty"
    ELSE IF Len(name) > MaxContainerNameLength THEN "too long"
    ELSE IF name[1] \in Digit THEN "must start with a letter"
    ELSE IF Contains(name, <<" ">>) THEN "cannot contain spaces"
    ELSE IF Contains(name, <<"_">>) THEN "cannot contain underscores"
    ELSE IF \E i \in 1..Len(name) : name[i] \notin Letter \cup Digit \cup {"-"}
         THEN "invalid characters"
    ELSE IF name[1] = "-" \/ name[Len(name)] = "-"
         THEN "cannot start or end with a hyphen"
    ELSE IF Contains(name, <<"-", "-">>) THEN "consecutive hyphens"
    ELSE IF ToLower(name) \in reservedNames THEN "reserved name"
    ELSE "ok"

\* C36: ValidateContainerName reports the first failing rule in the order
\* empty, too long, starts with a digit, contains a space, contains an
\* underscore, other invalid character, hyphen at start or end, consecutive
\* hyphens, reserved word; so a name that breaks exactly one rule is refused
\* with the message of that rule.
C36_FirstFailingRuleReported ==
    \A p \in Procs :
        Validated(p, "ValidateContainerName")
        => ret[p] = FirstFailingRule(op[p].args.name)

AddError == "failed to add device to container"

\* every check of Mount passes for the arguments of the call
MountChecksPass(p) ==
    /\ MountArgsValid(p)
    /\ ~NameTaken(p)
    /\ ~PathTaken(p)
    /\ TargetPrivileged(p)
        => /\ ~op[p].args.ReadWrite
           /\ ~HasPrefix(ValidateSourcePath(op[p].args.source).path, p_home)

\* the device of the call is in the runtime with the configuration of the call
DeviceAdded(p) ==
    LET lxcName == GetLXCName(Loaded(p), op[p].args.container)
    IN  /\ op[p].dev \in RuntimeDevices(lxc, lxcName)
        /\ lxc[lxcName].devices[op[p].dev].Config = MountDeviceConfig(op[p].args)

\* C32: Mount issues DeviceAdd only after every validation and conflict
\* check has passed, and saves the document only after DeviceAdd has
\* succeeded; when DeviceAdd fails Mount returns an error, saves nothing,
\* issues no DeviceRemove, and the document on disk is as it was.
C32_RuntimeBeforeDocument ==
    \A p \in Procs :
        MountCalled(p)
        => /\ calls[p] # <<>>
              => Head(calls[p]) = "DeviceAdd" /\ MountChecksPass(p)
           /\ (pc[p] \in SavePcs \/ tmp[p] # NoFile \/ disk # base[p])
              => calls[p] = <<"DeviceAdd">> /\ DeviceAdded(p)
           /\ ret[p] = AddError
              => /\ calls[p] = <<"DeviceAdd">>
                 /\ pc[p] \in {"release", "done"}
                 /\ tmp[p] = NoFile
                 /\ disk = base[p]
                 /\ cfg[p] = Loaded(p)

\* DeviceAdd has failed for a call that passed every check: Mount has
\* returned the error after that single runtime call, with nothing saved
C32_Witness ==
    \E p \in Procs :
        /\ MountCalled(p) /\ pc[p] = "done"
        /\ MountChecksPass(p)
        /\ ret[p] = AddError
        /\ calls[p] = <<"DeviceAdd">>
        /\ disk = base[p]

RemoveError == "failed to remove device from LXC"

\* C33: Unmount removes the device from the runtime before the document.
\* When DeviceRemove fails the document is neither changed nor saved; when
\* DeviceRemove succeeds and Save fails Unmount returns the error without
\* adding the device back, so the document on disk still declares a device
\* the runtime no longer has; after a successful Unmount the device is in
\* neither.
C33_UnmountRuntimeFirst ==
    \A p \in Procs :
        UnmountCalled(p)
        => LET c == op[p].args.container
               inRuntime == op[p].dev \in RuntimeDevices(lxc, GetLXCName(Loaded(p), c))
               inDocument == op[p].dev \in DeclaredDevices(disk, c)
           IN  /\ (pc[p] \in SavePcs \/ tmp[p] # NoFile \/ disk # base[p])
                  => calls[p] = <<"DeviceRemove">> /\ ~inRuntime
               /\ ret[p] = RemoveError
                  => /\ calls[p] = <<"DeviceRemove">>
                     /\ pc[p] \in {"release", "done"}
                     /\ cfg[p] = Loaded(p)
                     /\ tmp[p] = NoFile
                     /\ disk = base[p]
               /\ (pc[p] = "done" /\ ret[p] = SaveError)
                  => /\ calls[p] = <<"DeviceRemove">>
                     /\ inDocument
                     /\ ~inRuntime
               /\ (pc[p] = "done" /\ ret[p] = "ok")
                  => ~inDocument /\ ~inRuntime

\* DeviceRemove has taken the device out of the runtime, Save has failed,
\* and Unmount has returned with the device still declared on disk
C33_Witness ==
    \E p \in Procs :
        /\ UnmountCalled(p) /\ pc[p] = "done"
        /\ ret[p] = SaveError
        /\ calls[p] = <<"DeviceRemove">>
        /\ op[p].dev \in DeclaredDevices(disk, op[p].args.container)
        /\ op[p].dev \notin RuntimeDevices(lxc, lxc_test_dev1)

\* C34: starting from a document in which no two devices of a container map
\* to the same container path, after any sequence of successful Mount and
\* Unmount operations no two declared devices of the container map to the
\* same container path, two paths being the same when they are equal after
\* cleaning (/ws and /ws/ are the same path).
C34_OneDevicePerContainerPath ==
    LET r == Load(disk, ProjectDir)
    IN  r.err = "ok"
        => \A c \in DOMAIN r.cfg.Containers :
              \A n1, n2 \in DOMAIN GetDevices(r.cfg, c) :
                 LET d1 == GetDevices(r.cfg, c)[n1].Config
                     d2 == GetDevices(r.cfg, c)[n2].Config
                 IN  (n1 # n2 /\ str_path \in DOMAIN d1 /\ str_path \in DOMAIN d2)
                     => Clean(d1[str_path]) # Clean(d2[str_path])

DeleteProjectCalled(p) == op[p].kind = "delete_project" /\ pc[p] = "done"

\* a container the loaded document declares is still in the runtime
SomeContainerLeft(p) ==
    \E n \in DOMAIN cfg[p].Containers : LxcExists(lxc, GetLXCName(cfg[p], n))

C38_DocumentStaysValid ==
    (disk.kind = "yaml" /\ disk.written = "all")
    => Validate(Unmarshal(disk.doc, ProjectDir)) = "ok"

\* C39: every DeviceAdd issued for a privileged container, by Mount or by
\* SyncMounts re-adding a missing device, carries readonly=true and a
\* source that is not under /home.
C39_PrivilegedDeviceAddRestricted ==
    \A p \in Procs :
        (op[p].args # NoArgs /\ TargetPrivileged(p))
        => \A i \in 1..Len(op[p].adds) :
              LET call == op[p].adds[i]
              IN  /\ MapGet(call.config, str_readonly) = str_true
                  /\ ~UnderHome(MapGet(call.config, str_source))

\* p leaves Save with this step
SaveReturns(p) == pc[p] \in SavePcs /\ pc'[p] \notin SavePcs

\* the step is the Rename of p's Save, and it succeeds
SaveSucceeds(p) == pc[p] = "save_rename" /\ pc'[p] \notin SavePcs

====
